---- MODULE Spec2Model ----
(***************************************************************************)
(* Model of the relay client of hypertuna-relay-manager-client:            *)
(* WebSocketRelayManager (connection pool, request scheduler, subscription *)
(* multiplexer, publish/acknowledgment tracker).                           *)
(*                                                                         *)
(* The program is single-threaded JavaScript: every action below is one    *)
(* task of the event loop (a call made by the application, a WebSocket     *)
(* event, a timer callback), run to completion with the promise reactions  *)
(* it triggers.  The handlers call each other synchronously                *)
(* (_queueRequest may run _processQueue, which may run the queued          *)
(* closure), so they are written as functions from a record of the whole   *)
(* program state ("world") to the next one, and an action assigns the      *)
(* resulting world to the variables.                                       *)
(***************************************************************************)
EXTENDS Integers, Sequences, FiniteSets, TLC

\* ------------------------------------------------------------------ bounds
PoolConns  == 2   \* SpecPool: WebSocket objects created in a run
PoolCalls  == 3   \* SpecPool: addRelay() calls of the application in a run
PubConns   == 2   \* SpecPublish: WebSocket objects created in a run
PubCalls   == 1   \* SpecPublish: publish() calls in a run
SchedConns == 2   \* SpecSched: WebSocket objects created in a run
SchedCalls == 2   \* SpecSched: publish() calls in a run
SchedWork  == 3   \* SpecSched: frames enqueued or buffered before a subscribe
MaxConns   == 2   \* Spec: WebSocket objects created in a run
MaxPublish == 1   \* Spec: publish() calls in a run
MaxWork    == 3   \* Spec: frames enqueued or buffered before a subscribe
DrainConns == 1   \* SpecDrain: WebSocket objects created in a run
DrainWork  == 3   \* SpecDrain: frames enqueued or buffered before a subscribe
MuxConns   == 2   \* SpecMux: WebSocket objects created in a run
MuxWork    == 2   \* SpecMux: frames enqueued or buffered before a subscribe
FanConns   == 2   \* SpecFanout: WebSocket objects created in a run
FanWork    == 2   \* SpecFanout: frames enqueued or buffered before a subscribe
ErrConns   == 2   \* SpecError: WebSocket objects created in a run
ErrWork    == 2   \* SpecError: frames enqueued or buffered before a subscribe
ConnConns  == 2   \* SpecConnect: WebSocket objects created in a run
ConnListeners == 2  \* SpecConnect: onConnect registrations in a run
TimelineFrames == 5  \* SpecTimeline: inbound EVENT frames in a run
GroupFrames == 3  \* SpecGroups: inbound EVENT frames in a run
RosterFrames == 3 \* SpecRoster: inbound EVENT frames in a run
ClientFrames == 3 \* SpecClient: inbound EVENT frames in a run
DispConns  == 1   \* SpecDispatch: WebSocket objects created in a run
DispWork   == 3   \* SpecDispatch: frames enqueued or buffered before a subscribe
DispObservers == 2  \* SpecDispatch: onEvent registrations in a run
DispFrames == 2   \* SpecDispatch: inbound EVENT frames in a run
MaxObservers == 2   \* Spec: onEvent registrations of the application in a run
MaxFrames  == 2   \* Spec: inbound EVENT frames in a run
IsoWork    == 2   \* SpecIsolation: frames enqueued or buffered before a subscribe
IsoObservers == 3 \* SpecIsolation: observers of the manager
IsoListeners == 2 \* SpecIsolation: on() registrations of the application
IsoFrames  == 1   \* SpecIsolation: inbound EVENT frames in a run
FollowFrames == 3 \* SpecFollows: inbound EVENT frames in a run
OpenConns  == 1   \* SpecOpen: WebSocket objects created in a run
OpenWork   == 3   \* SpecOpen: frames enqueued or buffered before a subscribe
OpenCalls  == 2   \* SpecOpen: publish() calls in a run
ProfConns  == 1   \* SpecProfile: WebSocket objects created in a run
MalConns   == 1   \* SpecMalformed: WebSocket objects created in a run
MalWork    == 2   \* SpecMalformed: frames enqueued or buffered before a subscribe
MalPubs    == 1   \* SpecMalformed: publish calls in a run
MalFrames  == 2   \* SpecMalformed: inbound frames in a run
TickMs     == 25  \* granularity of the clock, in ms

\* ------------------------------------------------------- program constants
minTimeBetweenRequests == 50
maxAttempts == 3

KIND_METADATA == 0
KIND_TEXT_NOTE == 1
KIND_CONTACTS == 3
KIND_GROUP_CREATE == 9007
KIND_GROUP_METADATA == 39000
KIND_GROUP_ADMIN_LIST == 39001
KIND_GROUP_MEMBER_LIST == 39002
KIND_HYPERTUNA_RELAY == 30166

\* Date.now() when the manager is constructed: lastRequestTime starts at 0 and
\* the wall clock is far past minTimeBetweenRequests.
StartTime == minTimeBetweenRequests + TickMs

\* ------------------------------------------------------------------ inputs
\* A URL string is the concatenation of its tokens; startsWith looks at the
\* first token.
RawURLs == { <<"wss://", "a">>, <<"a">>, <<"ws://", "a">>, <<"b">> }
TwoURLs == { <<"a">>, <<"ws://", "b">> }
OneURL  == { <<"a">> }

startsWith(url, prefix) == Len(url) > 0 /\ url[1] = prefix

\* A logical subscription id is its sequence of characters.
SubGroups == <<"h","y","p","e","r","t","u","n","a","-","g","r","o","u","p","s">>
SubRelays == <<"h","y","p","e","r","t","u","n","a","-","r","e","l","a","y","s">>
SubShort  == <<"p","r","o","f">>
SubIds    == { SubGroups, SubShort }
FilterLists == { <<"fA">>, <<"fA", "fB">> }
Callbacks == { "cb1" }

\* JavaScript values of the fields _validateEvent reads.  sig is given by its
\* length (0: missing or empty), the other fields by their type and
\* truthiness.
GoodEvent == [id |-> "e1", pubkey |-> "pk", sigLen |-> 128,
              created_at |-> "number", kind |-> "number", tags |-> "array"]
Events == { GoodEvent,
            [GoodEvent EXCEPT !.id = "undefined"],
            [GoodEvent EXCEPT !.pubkey = "undefined"],
            [GoodEvent EXCEPT !.sigLen = 0],
            [GoodEvent EXCEPT !.sigLen = 64],
            [GoodEvent EXCEPT !.tags = "object"],
            [GoodEvent EXCEPT !.kind = "string"],
            [GoodEvent EXCEPT !.created_at = "string"],
            [GoodEvent EXCEPT !.created_at = "zero"] }

\* Inbound OK frames: ["OK", id, true], ["OK", id, false, reason], ["OK", id],
\* and an OK for another message.
OkFrame(id, len, ok) ==
    [parses |-> TRUE, array |-> TRUE, tag |-> "OK", id |-> id, len |-> len,
     ok |-> ok]
OkFrames == << OkFrame("e1", 3, TRUE), OkFrame("e1", 4, FALSE),
               OkFrame("e1", 2, FALSE), OkFrame("e0", 3, TRUE) >>

\* ------------------------------------------------------------------- state
VARIABLES
    relays,              \* this.relays: Map url -> relayData, in insertion order
    conns,               \* every relayData/WebSocket pair created so far
    globalSubscriptions, \* this.globalSubscriptions, in insertion order
    requestQueue,        \* this.requestQueue
    processingQueue,     \* this.processingQueue
    lastRequestTime,     \* this.lastRequestTime
    drainTimers,         \* armed setTimeout(() => this._processQueue(), d): deadlines
    reconnectTimers,     \* armed setTimeout(() => this.addRelay(url), 5000): conn ids
    attempts,            \* the per-relay publishPromise of every publish
    pubs,                \* the promise returned by every publish call
    now,                 \* Date.now()
    executed,            \* history: [at, n] of every closure the drain loop ran
    nBuffered,           \* history: number of pendingMessages.push so far
    addRelayCalls,       \* history: addRelay calls of the application, where counted
    sendAfterClose,      \* what WebSocket.send does on a CLOSING or CLOSED socket
    eventCallbacks,      \* this.eventCallbacks, in registration order
    client,              \* the NostrGroupClient that owns the manager
    invoked,             \* history: callbacks invoked for the last inbound frame
    emitted,             \* history: client events emitted for the last inbound frame
    nFrames,             \* history: inbound EVENT frames so far
    lastFrame,           \* history: the last inbound EVENT frame, if any
    connectCallbacks,    \* this.connectCallbacks, in registration order
    disconnectCallbacks, \* this.disconnectCallbacks, in registration order
    profileFlow          \* the call of NostrIntegration.updateProfile in progress

vars == << relays, conns, globalSubscriptions, requestQueue, processingQueue,
           lastRequestTime, drainTimers, reconnectTimers, attempts, pubs, now,
           executed, nBuffered, addRelayCalls, sendAfterClose, eventCallbacks,
           client, invoked, emitted, nFrames, lastFrame, connectCallbacks,
           disconnectCallbacks, profileFlow >>

World == [ relays |-> relays, conns |-> conns,
           globalSubscriptions |-> globalSubscriptions,
           requestQueue |-> requestQueue, processingQueue |-> processingQueue,
           lastRequestTime |-> lastRequestTime, drainTimers |-> drainTimers,
           reconnectTimers |-> reconnectTimers, attempts |-> attempts,
           pubs |-> pubs, now |-> now, executed |-> executed,
           nBuffered |-> nBuffered, addRelayCalls |-> addRelayCalls,
           sendAfterClose |-> sendAfterClose,
           eventCallbacks |-> eventCallbacks, client |-> client,
           invoked |-> invoked, emitted |-> emitted, nFrames |-> nFrames,
           lastFrame |-> lastFrame, connectCallbacks |-> connectCallbacks,
           disconnectCallbacks |-> disconnectCallbacks,
           profileFlow |-> profileFlow ]

Becomes(w) ==
    /\ relays' = w.relays
    /\ conns' = w.conns
    /\ globalSubscriptions' = w.globalSubscriptions
    /\ requestQueue' = w.requestQueue
    /\ processingQueue' = w.processingQueue
    /\ lastRequestTime' = w.lastRequestTime
    /\ drainTimers' = w.drainTimers
    /\ reconnectTimers' = w.reconnectTimers
    /\ attempts' = w.attempts
    /\ pubs' = w.pubs
    /\ now' = w.now
    /\ executed' = w.executed
    /\ nBuffered' = w.nBuffered
    /\ addRelayCalls' = w.addRelayCalls
    /\ sendAfterClose' = w.sendAfterClose
    /\ eventCallbacks' = w.eventCallbacks
    /\ client' = w.client
    /\ invoked' = w.invoked
    /\ emitted' = w.emitted
    /\ nFrames' = w.nFrames
    /\ lastFrame' = w.lastFrame
    /\ connectCallbacks' = w.connectCallbacks
    /\ disconnectCallbacks' = w.disconnectCallbacks
    /\ profileFlow' = w.profileFlow

\* ------------------------------------------------------ Map and list helpers
RemoveAt(s, i) == SubSeq(s, 1, i - 1) \o SubSeq(s, i + 1, Len(s))

\* this.relays.has(url) / this.relays.get(url)
RelayIndex(w, url) ==
    IF \E i \in 1..Len(w.relays) : w.relays[i].url = url
    THEN CHOOSE i \in 1..Len(w.relays) : w.relays[i].url = url
    ELSE 0
RelaysHas(w, url) == RelayIndex(w, url) # 0
RelaysGet(w, url) == w.relays[RelayIndex(w, url)].conn

SubIndex(w, id) ==
    IF \E i \in 1..Len(w.globalSubscriptions) : w.globalSubscriptions[i].id = id
    THEN CHOOSE i \in 1..Len(w.globalSubscriptions) : w.globalSubscriptions[i].id = id
    ELSE 0

\* Frames enqueued or buffered so far.
Work(w) == Len(w.executed) + Len(w.requestQueue) + w.nBuffered

\* --------------------------------------------------------------- WebSocket
\* conn.send(frame) by the queued closure q: the frame goes out on an OPEN
\* socket; on a CLOSING or CLOSED socket the call returns and the data is
\* discarded.  History kept per connection: sentN, the scheduler ordinal of the
\* last closure whose frame went out, and sentB, the push ordinal of the last
\* buffered frame that went out.  History kept per executed closure: sendOn,
\* the readyState of the socket when the closure called send.
Send(w, c, q) ==
    LET w0 == IF Len(w.executed) > 0
              THEN [w EXCEPT !.executed[Len(w.executed)].sendOn =
                                 w.conns[c].readyState]
              ELSE w
    IN  IF w.conns[c].readyState = "OPEN"
        THEN [w0 EXCEPT !.conns[c].sentN = q.n,
                        !.conns[c].sentB = IF q.b > 0 THEN q.b ELSE @]
        ELSE w0

\* conn.send() throws: the browser WebSocket never does on a CLOSING or CLOSED
\* socket, the ws package before 7.2 does ("WebSocket is not open").
SendThrows(w, c) ==
    w.conns[c].readyState # "OPEN" /\ w.sendAfterClose = "throw"

\* The exception leaves the closure and is caught by _processQueue, lines
\* 137-141.  History: the entry of the closure in executed is marked.
Thrown(w) == [w EXCEPT !.executed[Len(w.executed)].threw = TRUE]

\* relayData.pendingMessages.push(frame); b is the ordinal of the push.
PushPending(w, c, frame) ==
    [w EXCEPT !.conns[c].pendingMessages =
                  Append(@, [f |-> frame, b |-> w.nBuffered + 1]),
              !.nBuffered = @ + 1]

\* ------------------------------------------------------- publish attempts
\* A promise whose resolve()/reject() overwrite an earlier settlement.
Settle_Overwrites(att, outcome) == [att EXCEPT !.outcome = outcome]

\* resolve()/reject() of a promise that is already settled do nothing.
Settle(att, outcome) ==
    IF att.outcome = "pending" THEN [att EXCEPT !.outcome = outcome] ELSE att

SettleAttempt(w, a, outcome) ==
    [w EXCEPT !.attempts[a] = Settle(@, outcome)]

\* Promise.allSettled(publishPromises).then(...): once every attempt of publish
\* p is settled, the returned promise resolves with {success, count, relays,
\* queued} when some attempt was fulfilled with success or queued, and rejects
\* otherwise (also with no attempt at all).
IsSuccessful(a) == a.outcome \in {"success", "queued"}
IsQueued(a) == a.outcome = "queued"
RECURSIVE Urls(_)
Urls(as) == IF as = <<>> THEN <<>> ELSE <<Head(as).url>> \o Urls(Tail(as))

\* The aggregation with every fulfilled attempt taken as successful.
allSettled_AnyFulfilled(w, p) ==
    LET OfPub(a) == a.pub = p
        results == SelectSeq(w.attempts, OfPub)
        IsFulfilled(a) == a.outcome \in {"success", "failure", "queued"}
        successful == SelectSeq(results, IsFulfilled)
        queued == SelectSeq(results, IsQueued)
    IN  IF \E i \in 1..Len(results) : results[i].outcome = "pending"
        THEN w.pubs[p]
        ELSE IF Len(successful) > 0
        THEN [w.pubs[p] EXCEPT !.state = "resolved",
                               !.count = Len(successful),
                               !.relays = Urls(successful),
                               !.queued = Len(queued) > 0]
        ELSE [w.pubs[p] EXCEPT !.state = "rejected",
                               !.reason = "Failed to publish to any relays"]

\* The aggregation with a result built from every attempt.
allSettled_ReportsAll(w, p) ==
    LET OfPub(a) == a.pub = p
        results == SelectSeq(w.attempts, OfPub)
        successful == SelectSeq(results, IsSuccessful)
        queued == SelectSeq(results, IsQueued)
    IN  IF \E i \in 1..Len(results) : results[i].outcome = "pending"
        THEN w.pubs[p]
        ELSE IF Len(successful) > 0
        THEN [w.pubs[p] EXCEPT !.state = "resolved",
                               !.count = Len(results),
                               !.relays = Urls(results),
                               !.queued = Len(queued) > 0]
        ELSE [w.pubs[p] EXCEPT !.state = "rejected",
                               !.reason = "Failed to publish to any relays"]

allSettled(w, p) ==
    LET OfPub(a) == a.pub = p
        results == SelectSeq(w.attempts, OfPub)
        successful == SelectSeq(results, IsSuccessful)
        queued == SelectSeq(results, IsQueued)
    IN  IF \E i \in 1..Len(results) : results[i].outcome = "pending"
        THEN w.pubs[p]
        ELSE IF Len(successful) > 0
        THEN [w.pubs[p] EXCEPT !.state = "resolved",
                               !.count = Len(successful),
                               !.relays = Urls(successful),
                               !.queued = Len(queued) > 0]
        ELSE [w.pubs[p] EXCEPT !.state = "rejected",
                               !.reason = "Failed to publish to any relays"]

\* --------------------------------------------------------------- scheduler
\* The closures handed to _queueRequest.  q.n is the ordinal of the enqueue.
\*   flush: addRelay, ws.onopen, lines 56-60; a frame the closure does not
\*          send is gone (history: conns[c].dropped counts them)
\*   req:   _subscribeOnRelay, lines 297-311
\*   close: unsubscribe, lines 331-335
\*   event: publish, lines 423-438
Exec(w, q) ==
    LET c == q.conn IN
    CASE q.type = "flush" ->
            IF w.conns[c].readyState = "OPEN"
            THEN Send(w, c, q)
            ELSE [w EXCEPT !.conns[c].dropped = @ + 1]
      [] q.type = "req" ->
            IF w.conns[c].status = "open"
            THEN IF SendThrows(w, c)
                 THEN Thrown(w)
                 ELSE [Send(w, c, q) EXCEPT !.conns[c].subscriptions =
                         {s \in @ : s.id # q.sub} \cup
                         {[id |-> q.sub, shortId |-> q.frame.sid, filters |-> q.frame.filters]}]
            ELSE PushPending(w, c, q.frame)
      [] q.type = "close" ->
            IF w.conns[c].status = "open"
            THEN IF SendThrows(w, c) THEN Thrown(w) ELSE Send(w, c, q)
            ELSE w
      [] q.type = "event" ->
            IF w.conns[c].readyState = "OPEN"
            THEN Send(w, c, q)
            ELSE SettleAttempt(PushPending(w, c, q.frame), q.att, "queued")

\* _processQueue without the wait for minTimeBetweenRequests.
_processQueue_NoWait(w) ==
    IF Len(w.requestQueue) = 0
    THEN [w EXCEPT !.processingQueue = FALSE]
    ELSE
        LET request == Head(w.requestQueue)
            w1 == [w EXCEPT !.processingQueue = TRUE,
                            !.requestQueue = Tail(@),
                            !.lastRequestTime = w.now,
                            !.executed = Append(@, [at |-> w.now, n |-> request.n,
                                                    threw |-> FALSE,
                                                    sendOn |-> "none"])]
            w2 == Exec(w1, request)
        IN  IF Len(w2.requestQueue) > 0
            THEN [w2 EXCEPT !.drainTimers = Append(@, w.now)]
            ELSE [w2 EXCEPT !.processingQueue = FALSE]

\* _processQueue without the try/catch around request(): the exception of a
\* closure leaves _processQueue before the loop is continued.
_processQueue_NoCatch(w) ==
    IF Len(w.requestQueue) = 0
    THEN [w EXCEPT !.processingQueue = FALSE]
    ELSE
      LET timeSinceLastRequest == w.now - w.lastRequestTime IN
      IF timeSinceLastRequest < minTimeBetweenRequests
      THEN [w EXCEPT !.processingQueue = TRUE,
                     !.drainTimers = Append(@, w.now +
                         (minTimeBetweenRequests - timeSinceLastRequest))]
      ELSE
        LET request == Head(w.requestQueue)
            w1 == [w EXCEPT !.processingQueue = TRUE,
                            !.requestQueue = Tail(@),
                            !.lastRequestTime = w.now,
                            !.executed = Append(@, [at |-> w.now, n |-> request.n,
                                                    threw |-> FALSE,
                                                    sendOn |-> "none"])]
            w2 == Exec(w1, request)
        IN  IF w2.executed[Len(w2.executed)].threw
            THEN w2
            ELSE IF Len(w2.requestQueue) > 0
            THEN [w2 EXCEPT !.drainTimers = Append(@, w.now + minTimeBetweenRequests)]
            ELSE [w2 EXCEPT !.processingQueue = FALSE]

\* _processQueue()
_processQueue(w) ==
    IF Len(w.requestQueue) = 0
    THEN [w EXCEPT !.processingQueue = FALSE]
    ELSE
      LET timeSinceLastRequest == w.now - w.lastRequestTime IN
      IF timeSinceLastRequest < minTimeBetweenRequests
      THEN [w EXCEPT !.processingQueue = TRUE,
                     !.drainTimers = Append(@, w.now +
                         (minTimeBetweenRequests - timeSinceLastRequest))]
      ELSE
        LET request == Head(w.requestQueue)
            w1 == [w EXCEPT !.processingQueue = TRUE,
                            !.requestQueue = Tail(@),
                            !.lastRequestTime = w.now,
                            !.executed = Append(@, [at |-> w.now, n |-> request.n,
                                                    threw |-> FALSE,
                                                    sendOn |-> "none"])]
            w2 == Exec(w1, request)
        IN  IF Len(w2.requestQueue) > 0
            THEN [w2 EXCEPT !.drainTimers = Append(@, w.now + minTimeBetweenRequests)]
            ELSE [w2 EXCEPT !.processingQueue = FALSE]

\* _queueRequest with unshift in place of push.
_queueRequest_Unshift(w, request) ==
    LET w1 == [w EXCEPT !.requestQueue =
                 <<[request EXCEPT !.n = Work(w) - w.nBuffered + 1]>> \o @]
    IN  IF ~w1.processingQueue THEN _processQueue(w1) ELSE w1

\* _queueRequest(request)
_queueRequest(w, request) ==
    LET w1 == [w EXCEPT !.requestQueue =
                 Append(@, [request EXCEPT !.n = Work(w) - w.nBuffered + 1])]
    IN  IF ~w1.processingQueue THEN _processQueue(w1) ELSE w1

Closure(type, c, frame, sub, att) ==
    [type |-> type, conn |-> c, frame |-> frame, sub |-> sub, att |-> att,
     b |-> 0, n |-> 0]

Frame(tag, sid, filters, ev) ==
    [tag |-> tag, sid |-> sid, filters |-> filters, ev |-> ev]

\* ------------------------------------------------- subscription multiplexer
\* _shortenSubscriptionId returning the id as it is.
_shortenSubscriptionId_NoTruncation(subscriptionId) == subscriptionId

\* _shortenSubscriptionId(subscriptionId)
_shortenSubscriptionId(subscriptionId) ==
    IF Len(subscriptionId) <= 8 THEN subscriptionId ELSE SubSeq(subscriptionId, 1, 8)

\* _subscribeOnRelay writing the REQ frame itself, with no closure queued.
_subscribeOnRelay_Direct(w, relayUrl, subscriptionId, filters) ==
    IF ~RelaysHas(w, relayUrl) THEN w
    ELSE LET c == RelaysGet(w, relayUrl) IN
         IF w.conns[c].status # "open" THEN w
         ELSE LET shortSubId == w.globalSubscriptions[SubIndex(w, subscriptionId)].shortId
                  reqMsg == Frame("REQ", shortSubId, filters, "")
              IN  Send(w, c, [Closure("req", c, reqMsg, subscriptionId, 0)
                                  EXCEPT !.n = Work(w) - w.nBuffered + 1])

\* _subscribeOnRelay(relayUrl, subscriptionId, filters)
_subscribeOnRelay(w, relayUrl, subscriptionId, filters) ==
    IF ~RelaysHas(w, relayUrl) THEN w
    ELSE LET c == RelaysGet(w, relayUrl) IN
         IF w.conns[c].status # "open" THEN w
         ELSE LET shortSubId == w.globalSubscriptions[SubIndex(w, subscriptionId)].shortId
                  reqMsg == Frame("REQ", shortSubId, filters, "")
              IN  _queueRequest(w, Closure("req", c, reqMsg, subscriptionId, 0))

\* The forEach of subscribe with the REQ frame buffered on the relays that are
\* not open.
RECURSIVE SubscribeOnOpenRelays_Buffering(_, _, _, _)
SubscribeOnOpenRelays_Buffering(w, i, subscriptionId, filters) ==
    IF i > Len(w.relays) THEN w
    ELSE LET r == w.relays[i]
             sid == w.globalSubscriptions[SubIndex(w, subscriptionId)].shortId
             w1 == IF w.conns[r.conn].status = "open"
                   THEN _subscribeOnRelay(w, r.url, subscriptionId, filters)
                   ELSE PushPending(w, r.conn, Frame("REQ", sid, filters, ""))
         IN  SubscribeOnOpenRelays_Buffering(w1, i + 1, subscriptionId, filters)

\* this.relays.forEach of subscribe, from entry i on
RECURSIVE SubscribeOnOpenRelays(_, _, _, _)
SubscribeOnOpenRelays(w, i, subscriptionId, filters) ==
    IF i > Len(w.relays) THEN w
    ELSE LET r == w.relays[i]
             w1 == IF w.conns[r.conn].status = "open"
                   THEN _subscribeOnRelay(w, r.url, subscriptionId, filters)
                   ELSE w
         IN  SubscribeOnOpenRelays(w1, i + 1, subscriptionId, filters)

\* subscribe(subscriptionId, filters, callback)
subscribe(w, subscriptionId, filters, callback) ==
    LET entry == [id |-> subscriptionId,
                  shortId |-> _shortenSubscriptionId(subscriptionId),
                  filters |-> filters,
                  callbacks |-> <<callback>>]
        k == SubIndex(w, subscriptionId)
        w1 == [w EXCEPT !.globalSubscriptions =
                 IF k = 0 THEN Append(@, entry) ELSE [@ EXCEPT ![k] = entry]]
    IN  SubscribeOnOpenRelays(w1, 1, subscriptionId, filters)

\* The forEach of unsubscribe without the test of relay.status.
RECURSIVE CloseOnRelays_NoStatusTest(_, _, _, _)
CloseOnRelays_NoStatusTest(w, i, subscriptionId, shortSubId) ==
    IF i > Len(w.relays) THEN w
    ELSE LET c == w.relays[i].conn
             applied == \E s \in w.conns[c].subscriptions : s.id = subscriptionId
             w1 == IF applied
                   THEN [_queueRequest(w, Closure("close", c,
                             Frame("CLOSE", shortSubId, <<>>, ""), subscriptionId, 0))
                         EXCEPT !.conns[c].subscriptions =
                             {s \in @ : s.id # subscriptionId}]
                   ELSE w
         IN  CloseOnRelays_NoStatusTest(w1, i + 1, subscriptionId, shortSubId)

\* this.relays.forEach of unsubscribe, from entry i on
RECURSIVE CloseOnRelays(_, _, _, _)
CloseOnRelays(w, i, subscriptionId, shortSubId) ==
    IF i > Len(w.relays) THEN w
    ELSE LET c == w.relays[i].conn
             applied == \E s \in w.conns[c].subscriptions : s.id = subscriptionId
             w1 == IF w.conns[c].status = "open" /\ applied
                   THEN [_queueRequest(w, Closure("close", c,
                             Frame("CLOSE", shortSubId, <<>>, ""), subscriptionId, 0))
                         EXCEPT !.conns[c].subscriptions =
                             {s \in @ : s.id # subscriptionId}]
                   ELSE w
         IN  CloseOnRelays(w1, i + 1, subscriptionId, shortSubId)

\* unsubscribe(subscriptionId)
unsubscribe(w, subscriptionId) ==
    LET k == SubIndex(w, subscriptionId) IN
    IF k = 0 THEN w
    ELSE CloseOnRelays([w EXCEPT !.globalSubscriptions = RemoveAt(@, k)], 1,
                       subscriptionId, w.globalSubscriptions[k].shortId)

\* ---------------------------------------------------------- connection pool
\* The normalization at the head of addRelay.
NormalizeUrl(url) ==
    IF ~startsWith(url, "wss://") /\ ~startsWith(url, "ws://")
    THEN <<"wss://">> \o url
    ELSE url

\* addRelay without the test of this.relays.has(url): every call opens a
\* socket and this.relays.set(url, relayData) replaces the entry of the url.
addRelay_NoHasCheck(w, url) ==
    LET u == NormalizeUrl(url)
        c == Len(w.conns) + 1
        relayData == [url |-> u, readyState |-> "CONNECTING",
                      status |-> "connecting", subscriptions |-> {},
                      pendingMessages |-> <<>>, promise |-> "pending",
                      sentN |-> 0, sentB |-> 0, dropped |-> 0]
    IN  [w EXCEPT !.conns = Append(@, relayData),
                  !.relays = IF RelaysHas(w, u)
                             THEN [@ EXCEPT ![RelayIndex(w, u)].conn = c]
                             ELSE Append(@, [url |-> u, conn |-> c])]

\* addRelay(url): no-op when the normalized url is in the pool, otherwise a
\* new WebSocket and relayData, registered under the normalized url.
addRelay(w, url) ==
    LET u == NormalizeUrl(url) IN
    IF RelaysHas(w, u) THEN w
    ELSE LET relayData == [url |-> u,
                           readyState |-> "CONNECTING",
                           status |-> "connecting",
                           subscriptions |-> {},
                           pendingMessages |-> <<>>,
                           promise |-> "pending",
                           sentN |-> 0, sentB |-> 0, dropped |-> 0]
         IN  [w EXCEPT !.conns = Append(@, relayData),
                       !.relays = Append(@, [url |-> u, conn |-> Len(w.conns) + 1])]

\* A listener of the application that throws.
Throwing == "throws"

\* on(eventName, callback) of the client
on(w, eventName, callback) ==
    [w EXCEPT !.client.eventListeners =
                 Append(@, [name |-> eventName, cb |-> callback])]

\* listeners.forEach of emit: every listener of eventName is called, in
\* registration order, inside try/catch.  History: the listener called is
\* appended to emitted.
RECURSIVE CallListeners(_, _, _)
CallListeners(w, listeners, eventName) ==
    IF listeners = <<>> THEN w
    ELSE CallListeners(
             IF Head(listeners).name = eventName
             THEN [w EXCEPT !.emitted = Append(@, Head(listeners).cb)]
             ELSE w,
             Tail(listeners), eventName)

\* emit(eventName, data) of the client.  History: the name is appended to
\* emitted.
emit(w, eventName) ==
    CallListeners([w EXCEPT !.emitted = Append(@, eventName)],
                  w.client.eventListeners, eventName)

\* One of the listeners throws.
Throws(callbacks) == \E k \in 1..Len(callbacks) : callbacks[k] = Throwing

\* callbacks.forEach(callback => callback(url)) of ws.onopen and ws.onclose,
\* up to the first listener that throws.  The listeners of the client emit
\* 'relay:connect' and 'relay:disconnect'; a listener of the application
\* changes nothing here.
RECURSIVE NotifyAll(_, _)
NotifyAll(w, callbacks) ==
    IF callbacks = <<>> THEN w
    ELSE IF Head(callbacks) = Throwing THEN w
    ELSE LET w1 == IF Head(callbacks) \in {"relay:connect", "relay:disconnect"}
                   THEN emit(w, Head(callbacks))
                   ELSE w
         IN  NotifyAll(w1, Tail(callbacks))

\* relayData.pendingMessages.forEach of ws.onopen over the messages msgs
RECURSIVE FlushPending(_, _, _)
FlushPending(w, c, msgs) ==
    IF msgs = <<>> THEN w
    ELSE LET msg == Head(msgs)
             flush == [Closure("flush", c, msg.f, <<>>, 0) EXCEPT !.b = msg.b]
         IN  FlushPending(_queueRequest(w, flush), c, Tail(msgs))

\* this.globalSubscriptions.forEach of ws.onopen, from entry i on
RECURSIVE ApplyGlobalSubscriptions(_, _, _)
ApplyGlobalSubscriptions(w, url, i) ==
    IF i > Len(w.globalSubscriptions) THEN w
    ELSE LET sub == w.globalSubscriptions[i]
         IN  ApplyGlobalSubscriptions(
                 _subscribeOnRelay(w, url, sub.id, sub.filters), url, i + 1)

\* ws.onopen without the re-application of the registered subscriptions.
ws_onopen_NoReapply(w, c) ==
    LET w1 == [w EXCEPT !.conns[c].status = "open"]
        w2 == IF Len(w1.conns[c].pendingMessages) > 0
              THEN [FlushPending(w1, c, w1.conns[c].pendingMessages) EXCEPT !.conns[c].pendingMessages = <<>>]
              ELSE w1
        w4 == NotifyAll(w2, w2.connectCallbacks)
    IN  IF Throws(w2.connectCallbacks) THEN w4
        ELSE [w4 EXCEPT !.conns[c].promise = IF @ = "pending" THEN "resolved" ELSE @]

\* ws.onopen that re-applies the subscriptions before it flushes the buffer.
ws_onopen_ReapplyFirst(w, c) ==
    LET w1 == [w EXCEPT !.conns[c].status = "open"]
        w2 == ApplyGlobalSubscriptions(w1, w.conns[c].url, 1)
        w3 == IF Len(w2.conns[c].pendingMessages) > 0
              THEN [FlushPending(w2, c, w2.conns[c].pendingMessages) EXCEPT !.conns[c].pendingMessages = <<>>]
              ELSE w2
        w4 == NotifyAll(w3, w3.connectCallbacks)
    IN  IF Throws(w3.connectCallbacks) THEN w4
        ELSE [w4 EXCEPT !.conns[c].promise = IF @ = "pending" THEN "resolved" ELSE @]

\* ws.onopen of connection c.  A connect listener that throws ends the handler
\* before resolve().
ws_onopen(w, c) ==
    LET w1 == [w EXCEPT !.conns[c].status = "open"]
        w2 == IF Len(w1.conns[c].pendingMessages) > 0
              THEN [FlushPending(w1, c, w1.conns[c].pendingMessages) EXCEPT !.conns[c].pendingMessages = <<>>]
              ELSE w1
        w3 == ApplyGlobalSubscriptions(w2, w.conns[c].url, 1)
        w4 == NotifyAll(w3, w3.connectCallbacks)
    IN  IF Throws(w3.connectCallbacks) THEN w4
        ELSE [w4 EXCEPT !.conns[c].promise = IF @ = "pending" THEN "resolved" ELSE @]

\* ws.onclose of connection c.  A disconnect listener that throws ends the
\* handler before setTimeout.
ws_onclose(w, c) ==
    LET w1 == NotifyAll([w EXCEPT !.conns[c].status = "closed"],
                        w.disconnectCallbacks)
    IN  IF Throws(w.disconnectCallbacks) THEN w1
        ELSE [w1 EXCEPT !.reconnectTimers = @ \cup {c}]

\* ws.onerror that treats every error as the end of the connection.
ws_onerror_Fatal(w, c) ==
    IF w.conns[c].status = "connecting"
    THEN [w EXCEPT !.conns[c].promise = IF @ = "pending" THEN "rejected" ELSE @]
    ELSE [w EXCEPT !.conns[c].status = "closed",
                   !.conns[c].subscriptions = {}]

\* ws.onerror of connection c
ws_onerror(w, c) ==
    IF w.conns[c].status = "connecting"
    THEN [w EXCEPT !.conns[c].promise = IF @ = "pending" THEN "rejected" ELSE @]
    ELSE w

\* conn.close()
WsCloseCall(w, c) ==
    [w EXCEPT !.conns[c].readyState =
        IF @ \in {"CONNECTING", "OPEN"} THEN "CLOSING" ELSE @]

\* removeRelay(url)
removeRelay(w, url) ==
    IF ~RelaysHas(w, url) THEN w
    ELSE LET c == RelaysGet(w, url)
             w1 == IF w.conns[c].readyState # "CLOSED" THEN WsCloseCall(w, c) ELSE w
         IN  [w1 EXCEPT !.relays = RemoveAt(@, RelayIndex(w, url))]

\* ------------------------------------------------------------------ publish
\* _validateEvent without the test of the signature length.
_validateEvent_NoSigLength(event) ==
    /\ ~(event.id = "undefined" \/ event.pubkey = "undefined" \/ event.sigLen = 0)
    /\ ~(event.created_at = "zero" \/ event.created_at # "number")
    /\ event.kind = "number"
    /\ event.tags = "array"

\* _validateEvent(event).valid
_validateEvent(event) ==
    /\ ~(event.id = "undefined" \/ event.pubkey = "undefined" \/ event.sigLen = 0)
    /\ ~(event.created_at = "zero" \/ event.created_at # "number")
    /\ event.kind = "number"
    /\ event.tags = "array"
    /\ event.sigLen = 128

\* The executor of one publishPromise: attempt a of publish p on the relay
\* entry r.  The 10 s timer is armed for every attempt.
PublishOnRelay(w, p, r) ==
    LET c == r.conn
        a == Len(w.attempts) + 1
        eventMsg == Frame("EVENT", <<>>, <<>>, w.pubs[p].event.id)
        w1 == [w EXCEPT !.attempts = Append(@,
                  [pub |-> p, conn |-> c, url |-> r.url, outcome |-> "pending",
                   timer |-> TRUE, listening |-> FALSE])]
    IN  IF w.conns[c].status = "open"
        THEN _queueRequest([w1 EXCEPT !.attempts[a].listening = TRUE],
                           Closure("event", c, eventMsg, <<>>, a))
        ELSE SettleAttempt(PushPending(w1, c, eventMsg), a, "queued")

\* this.relays.forEach of publish, from entry i on
RECURSIVE PublishOnRelays(_, _, _)
PublishOnRelays(w, p, i) ==
    IF i > Len(w.relays) THEN w
    ELSE PublishOnRelays(PublishOnRelay(w, p, w.relays[i]), p, i + 1)

\* publish(event)
publish(w, event) ==
    LET p == Len(w.pubs) + 1
        promise == [event |-> event, state |-> "pending", reason |-> "",
                    count |-> 0, relays |-> <<>>, queued |-> FALSE]
    IN  IF ~_validateEvent(event)
        THEN [w EXCEPT !.pubs = Append(@,
                 [promise EXCEPT !.state = "rejected", !.reason = "Invalid event"])]
        ELSE PublishOnRelays([w EXCEPT !.pubs = Append(@, promise)], p, 1)

\* The timeout callback of attempt a.
PublishTimedOut(w, a) ==
    SettleAttempt([w EXCEPT !.attempts[a].timer = FALSE,
                            !.attempts[a].listening = FALSE], a, "timeout")

\* okHandler that clears the timeout and leaves itself attached.
okHandler_StaysAttached(w, a, data) ==
    IF ~data.parses THEN w
    ELSE IF /\ data.array
            /\ data.tag = "OK"
            /\ data.id = w.pubs[w.attempts[a].pub].event.id
    THEN SettleAttempt([w EXCEPT !.attempts[a].timer = FALSE], a,
                       IF data.len > 2 /\ data.ok = TRUE THEN "success" ELSE "failure")
    ELSE w

\* okHandler of attempt a on the inbound OK frame data.
okHandler(w, a, data) ==
    IF ~data.parses THEN w
    ELSE IF /\ data.array
            /\ data.tag = "OK"
            /\ data.id = w.pubs[w.attempts[a].pub].event.id
    THEN SettleAttempt([w EXCEPT !.attempts[a].timer = FALSE,
                                 !.attempts[a].listening = FALSE], a,
                       IF data.len > 2 /\ data.ok = TRUE THEN "success" ELSE "failure")
    ELSE w

\* The 'message' listeners of connection c, attempts a.. in attachment order.
RECURSIVE MessageListeners(_, _, _, _)
MessageListeners(w, c, a, data) ==
    IF a > Len(w.attempts) THEN w
    ELSE MessageListeners(
             IF w.attempts[a].conn = c /\ w.attempts[a].listening
             THEN okHandler(w, a, data) ELSE w,
             c, a + 1, data)

\* ------------------------------------------------ NostrIntegration.updateProfile
\* No call of updateProfile yet.  pc is the await the call is suspended at,
\* pub the publish it awaits, attempts and inner the counters of updateProfile
\* and publishEvent, timer the setTimeout it awaits, in ms.  History: waits,
\* the waits before a retry so far; published, the calls of publish so far.
NoProfileFlow ==
    [pc |-> "idle", pub |-> 0, attempts |-> 0, inner |-> 0, timer |-> 0,
     error |-> "", userUpdated |-> FALSE, waits |-> <<>>, published |-> 0]

\* The signed profile event of NostrEvents.createProfileEvent.
ProfileEvent == GoodEvent

\* relayManager.publish(event) awaited by the flow at pc.
FlowPublish(w, pc) ==
    [publish(w, ProfileEvent) EXCEPT !.profileFlow.pc = pc,
                                     !.profileFlow.pub = Len(w.pubs) + 1,
                                     !.profileFlow.timer = 0,
                                     !.profileFlow.published = @ + 1]

\* The promise of updateProfile rejects.
FlowThrow(w, error) ==
    [w EXCEPT !.profileFlow.pc = "rejected", !.profileFlow.error = error,
              !.profileFlow.pub = 0, !.profileFlow.timer = 0]

\* await new Promise(resolve => setTimeout(resolve, waitTime)) before a retry
FlowWait(w, pc, waitTime) ==
    [w EXCEPT !.profileFlow.pc = pc, !.profileFlow.pub = 0,
              !.profileFlow.timer = waitTime,
              !.profileFlow.waits = Append(@, waitTime)]

\* NostrGroupClient.updateProfile(profile) up to its await of publish
client_updateProfile(w) ==
    IF w.client.user = "null"
    THEN FlowThrow(w, "User not logged in")
    ELSE FlowPublish(w, "client")

\* NostrIntegration.updateProfile(profile) up to its first await
updateProfile(w) == client_updateProfile(w)

\* The catch block of the loop of updateProfile.
updateProfile_Caught(w) ==
    LET n == w.profileFlow.attempts + 1
        w1 == [w EXCEPT !.profileFlow.attempts = n]
    IN  IF n >= maxAttempts
        THEN FlowThrow(w1, "Failed to publish to any relays")
        ELSE FlowWait(w1, "outerWait", (2 ^ n) * 1000)

\* The catch block of the loop of publishEvent.
publishEvent_Caught(w) ==
    LET n == w.profileFlow.inner + 1
        w1 == [w EXCEPT !.profileFlow.inner = n]
    IN  IF n >= maxAttempts
        THEN updateProfile_Caught(w1)
        ELSE FlowWait(w1, "innerWait", (2 ^ n) * 500)

\* The flow resumes once the publish it awaits has settled.
FlowResumes(w) ==
    /\ w.profileFlow.pc \in {"client", "publish"}
    /\ w.pubs[w.profileFlow.pub].state # "pending"

FlowResume(w) ==
    LET resolved == w.pubs[w.profileFlow.pub].state = "resolved" IN
    IF w.profileFlow.pc = "client"
    THEN IF resolved
         THEN FlowPublish([w EXCEPT !.profileFlow.userUpdated = TRUE], "publish")
         ELSE FlowThrow(w, "Failed to publish to any relays")
    ELSE IF resolved
         THEN [w EXCEPT !.profileFlow.pc = "settle", !.profileFlow.pub = 0,
                        !.profileFlow.timer = 1000]
         ELSE publishEvent_Caught(w)

\* The timer the flow awaits fires.
FlowTimerFired(w) ==
    CASE w.profileFlow.pc = "innerWait" -> FlowPublish(w, "publish")
      [] w.profileFlow.pc = "outerWait" ->
             FlowPublish([w EXCEPT !.profileFlow.inner = 0], "publish")
      [] w.profileFlow.pc = "settle" ->
             [w EXCEPT !.profileFlow.pc = "resolved", !.profileFlow.timer = 0]

\* The promise reactions that run when the current task ends: the
\* aggregation of every publish, then the flow that awaits one of them.
RECURSIVE Microtasks(_)
Microtasks(w) ==
    LET w1 == [w EXCEPT !.pubs = [p \in 1..Len(w.pubs) |->
                  IF w.pubs[p].state = "pending" THEN allSettled(w, p)
                  ELSE w.pubs[p]]]
    IN  IF FlowResumes(w1) THEN Microtasks(FlowResume(w1)) ELSE w1

\* ----------------------------------------------------- NostrGroupClient data
\* The client before its constructor has run.
NoClient ==
    [phase |-> "none", user |-> "null", follows |-> {}, relevantPubkeys |-> {},
     groups |-> {}, groupMembers |-> {}, groupAdmins |-> {},
     groupMessages |-> {}, cachedProfiles |-> {}, hypertunaGroups |-> {},
     groupHypertunaIds |-> {}, activeSubscriptions |-> <<>>,
     contactsTimer |-> FALSE, awaiting |-> {}, eventListeners |-> <<>>]

\* Kinds of NostrEvents are the numbers of the protocol; pubkeys and message
\* ids are names; a tag value is a character sequence, <<>> when the tag is
\* absent (_getTagValue returns null, falsy like the empty string).
Me == "me"
Pubkeys == { "me", "fo", "rl", "st" }
NoTag == <<>>
GroupG1 == <<"g", "1">>

BaseEvent ==
    [id |-> "e0", pubkey |-> "st", kind |-> KIND_TEXT_NOTE, created_at |-> 1,
     d |-> NoTag, h |-> NoTag, p |-> {}, hypertuna |-> NoTag, i |-> FALSE,
     name |-> NoTag, contentOk |-> TRUE]

\* The logical subscription ids of the client.
SubUserProfile == <<"u","s","e","r","-","p","r","o","f","i","l","e">>
SubUserGroups == <<"u","s","e","r","-","g","r","o","u","p","s">>
GroupMembersPrefix == <<"g","r","o","u","p","-","m","e","m","b","e","r","s","-">>
GroupContentPrefix == <<"g","r","o","u","p","-","c","o","n","t","e","n","t","-">>
ContactsPrefix == <<"c","o","n","t","a","c","t","s","-">>

\* A filter of a subscription of the client: what it selects and, where the
\* filter names a group ("#d" or "#h"), the group id.
Filter(what, groupId) == <<what, groupId>>

\* s.substring(from, to)
substring(s, from, to) ==
    SubSeq(s, from + 1, IF to < Len(s) THEN to ELSE Len(s))

\* A Map as the set of its entries; the key of an entry is its field id.
MapHas(m, k) == \E x \in m : x.id = k
MapGet(m, k) == CHOOSE x \in m : x.id = k
MapSet(m, x) == { y \in m : y.id # x.id } \cup { x }
\* A Set in insertion order.
SetAdd(s, x) == IF \E k \in 1..Len(s) : s[k] = x THEN s ELSE Append(s, x)
SetHas(s, x) == \E k \in 1..Len(s) : s[k] = x

\* --------------------------------------------------------------- observers
\* typeof callback === 'function'
IsFunction(callback) == callback # "undefined"

\* onConnect(callback)
onConnect(w, callback) ==
    IF IsFunction(callback)
    THEN [w EXCEPT !.connectCallbacks = Append(@, callback)]
    ELSE w

\* onDisconnect(callback)
onDisconnect(w, callback) ==
    IF IsFunction(callback)
    THEN [w EXCEPT !.disconnectCallbacks = Append(@, callback)]
    ELSE w

\* onEvent(callback)
onEvent(w, callback) ==
    IF IsFunction(callback)
    THEN [w EXCEPT !.eventCallbacks = Append(@, callback)]
    ELSE w

\* ------------------------------------------------------------ NostrEvents
\* NostrEvents._getTagValue(event, tagName), for the tags d, h and hypertuna
_getTagValue(event, tagName) == event[tagName]

\* parseGroupMetadata returns null
NoGroupData == [id |-> NoTag]

\* NostrEvents.parseGroupMetadata(event)
parseGroupMetadata(event) ==
    IF event.kind # KIND_GROUP_METADATA THEN NoGroupData
    ELSE IF _getTagValue(event, "d") = NoTag THEN NoGroupData
    ELSE [id |-> _getTagValue(event, "d"),
          name |-> IF _getTagValue(event, "name") # NoTag
                   THEN _getTagValue(event, "name")
                   ELSE <<"Unnamed Group">>,
          createdAt |-> event.created_at,
          relay |-> event.pubkey,
          event |-> event.id,
          hypertunaId |-> _getTagValue(event, "hypertuna"),
          isHypertunaRelay |-> event.i]

\* NostrEvents.parseGroupMembers(event): the pubkeys of the p tags
parseGroupMembers(event) ==
    IF event.kind # KIND_GROUP_MEMBER_LIST THEN {} ELSE event.p

\* NostrEvents.parseGroupAdmins(event)
parseGroupAdmins(event) ==
    IF event.kind # KIND_GROUP_ADMIN_LIST THEN {} ELSE event.p

\* ------------------------------------------------------- NostrGroupClient

\* _shouldProcessEvent with the hypertuna test of group metadata dropped.
_shouldProcessEvent_NoHypertunaTest(cl, event) ==
    \/ event.pubkey = cl.user
    \/ event.kind = KIND_GROUP_METADATA
    \/ event.kind = KIND_HYPERTUNA_RELAY
    \/ event.pubkey \in cl.follows
    \/ event.pubkey \in cl.relevantPubkeys
    \/ /\ event.kind \in {KIND_GROUP_MEMBER_LIST, KIND_GROUP_ADMIN_LIST}
       /\ cl.user \in event.p

\* _shouldProcessEvent(event), on the client state cl
_shouldProcessEvent(cl, event) ==
    IF event.pubkey = cl.user THEN TRUE
    ELSE IF event.kind = KIND_GROUP_METADATA
    THEN IF _getTagValue(event, "hypertuna") # NoTag
         THEN event.pubkey = cl.user \/ event.pubkey \in cl.follows
         ELSE TRUE
    ELSE IF event.kind = KIND_HYPERTUNA_RELAY THEN TRUE
    ELSE IF event.pubkey \in cl.follows THEN TRUE
    ELSE IF event.pubkey \in cl.relevantPubkeys THEN TRUE
    ELSE IF /\ event.kind \in {KIND_GROUP_MEMBER_LIST, KIND_GROUP_ADMIN_LIST}
            /\ cl.user \in event.p
    THEN TRUE
    ELSE FALSE

\* _subscribeToGroupMembership(groupId)
_subscribeToGroupMembership(w, groupId) ==
    IF groupId = NoTag THEN w
    ELSE LET subId == GroupMembersPrefix \o substring(groupId, 0, 8) IN
         IF SetHas(w.client.activeSubscriptions, subId) THEN w
         ELSE [subscribe(w, subId, <<Filter("fGroupMembers", groupId)>>, "membersCb")
                 EXCEPT !.client.activeSubscriptions = SetAdd(@, subId)]

\* _subscribeToGroupContent(groupId)
_subscribeToGroupContent(w, groupId) ==
    IF groupId = NoTag THEN w
    ELSE LET subId == GroupContentPrefix \o substring(groupId, 0, 8) IN
         IF SetHas(w.client.activeSubscriptions, subId) THEN w
         ELSE LET memberPubkeys ==
                      IF MapHas(w.client.groupMembers, groupId)
                      THEN MapGet(w.client.groupMembers, groupId).members
                      ELSE {}
                  w1 == [w EXCEPT !.client.relevantPubkeys = @ \cup memberPubkeys]
              IN  [subscribe(w1, subId, <<Filter("fGroupContent", groupId)>>,
                             "contentCb")
                     EXCEPT !.client.activeSubscriptions = SetAdd(@, subId)]

\* _processProfileEvent(event)
_processProfileEvent(w, event) ==
    IF ~event.contentOk THEN w
    ELSE LET w1 == [w EXCEPT !.client.cachedProfiles =
                       MapSet(@, [id |-> event.pubkey,
                                  updated_at |-> event.created_at])]
             w2 == IF w1.client.user # "null" /\ event.pubkey = w1.client.user
                   THEN emit(w1, "user:update")
                   ELSE w1
         IN  emit(w2, "profile:update")

\* _processGroupMetadataEvent with the comparison of the timestamps dropped.
_processGroupMetadataEvent_NoComparison(w, event) ==
    LET groupData == parseGroupMetadata(event) IN
    IF groupData = NoGroupData THEN w
    ELSE LET hypertunaId == _getTagValue(event, "hypertuna")
             w1 == [w EXCEPT !.client.groups = MapSet(@, groupData)]
             w2 == IF hypertunaId # NoTag
                   THEN [w1 EXCEPT
                           !.client.hypertunaGroups =
                               MapSet(@, [id |-> hypertunaId, groupId |-> groupData.id]),
                           !.client.groupHypertunaIds =
                               MapSet(@, [id |-> groupData.id, hypertunaId |-> hypertunaId])]
                   ELSE w1
         IN  _subscribeToGroupMembership(emit(w2, "group:metadata"), groupData.id)

\* _processGroupMetadataEvent(event)
_processGroupMetadataEvent(w, event) ==
    LET groupData == parseGroupMetadata(event) IN
    IF groupData = NoGroupData THEN w
    ELSE LET hypertunaId == _getTagValue(event, "hypertuna")
             existing == MapHas(w.client.groups, groupData.id)
         IN  IF existing /\ MapGet(w.client.groups, groupData.id).createdAt
                               > groupData.createdAt
             THEN w
             ELSE LET w1 == [w EXCEPT !.client.groups = MapSet(@, groupData)]
                      w2 == IF hypertunaId # NoTag
                            THEN [w1 EXCEPT
                                    !.client.hypertunaGroups =
                                        MapSet(@, [id |-> hypertunaId,
                                                   groupId |-> groupData.id]),
                                    !.client.groupHypertunaIds =
                                        MapSet(@, [id |-> groupData.id,
                                                   hypertunaId |-> hypertunaId])]
                            ELSE w1
                  IN  _subscribeToGroupMembership(emit(w2, "group:metadata"),
                                                  groupData.id)

\* _processHypertunaRelayEvent(event)
_processHypertunaRelayEvent(w, event) ==
    LET hypertunaId == _getTagValue(event, "hypertuna")
        groupId == _getTagValue(event, "h")
    IN  IF hypertunaId = NoTag THEN w
        ELSE IF groupId = NoTag THEN w
        ELSE emit([w EXCEPT
                     !.client.hypertunaGroups =
                         MapSet(@, [id |-> hypertunaId, groupId |-> groupId]),
                     !.client.groupHypertunaIds =
                         MapSet(@, [id |-> groupId, hypertunaId |-> hypertunaId])],
                  "hypertuna:relay")

\* _processGroupMemberListEvent(event).  The field at of a roster entry is
\* history: the created_at of the message the roster came from, which the
\* program does not keep.
_processGroupMemberListEvent(w, event) ==
    LET groupId == _getTagValue(event, "d") IN
    IF groupId = NoTag THEN w
    ELSE LET members == parseGroupMembers(event)
             w1 == [w EXCEPT !.client.groupMembers =
                                 MapSet(@, [id |-> groupId, members |-> members,
                                            at |-> event.created_at]),
                             !.client.relevantPubkeys = @ \cup members]
             w2 == emit(w1, "group:members")
         IN  IF w2.client.user = "null" THEN w2
             ELSE LET w3 == emit(w2, "group:membership") IN
                  IF w3.client.user \in members
                  THEN _subscribeToGroupContent(w3, groupId)
                  ELSE w3

\* _processGroupAdminListEvent(event)
_processGroupAdminListEvent(w, event) ==
    LET groupId == _getTagValue(event, "d") IN
    IF groupId = NoTag THEN w
    ELSE LET admins == parseGroupAdmins(event)
             w1 == [w EXCEPT !.client.groupAdmins =
                                 MapSet(@, [id |-> groupId, admins |-> admins,
                                            at |-> event.created_at]),
                             !.client.relevantPubkeys = @ \cup admins]
             w2 == emit(w1, "group:admins")
         IN  IF w2.client.user = "null" THEN w2 ELSE emit(w2, "group:admin")

\* messages.sort((a, b) => a.created_at - b.created_at) after messages.push:
\* the new message goes behind the messages that are not newer than it.
RECURSIVE InsertSorted(_, _)
InsertSorted(messages, event) ==
    IF messages = <<>> THEN <<event>>
    ELSE IF Head(messages).created_at <= event.created_at
    THEN <<Head(messages)>> \o InsertSorted(Tail(messages), event)
    ELSE <<event>> \o messages

\* _processGroupMessageEvent without the test of the ids in the list.
_processGroupMessageEvent_NoDedup(w, event) ==
    LET groupId == _getTagValue(event, "h") IN
    IF groupId = NoTag THEN w
    ELSE LET messages == IF MapHas(w.client.groupMessages, groupId)
                         THEN MapGet(w.client.groupMessages, groupId).messages
                         ELSE <<>>
             message == [id |-> event.id, created_at |-> event.created_at]
         IN  emit([w EXCEPT !.client.groupMessages =
                     MapSet(@, [id |-> groupId,
                                messages |-> InsertSorted(messages, message)])],
                  "group:message")

\* _processGroupMessageEvent(event)
_processGroupMessageEvent(w, event) ==
    LET groupId == _getTagValue(event, "h") IN
    IF groupId = NoTag THEN w
    ELSE LET messages == IF MapHas(w.client.groupMessages, groupId)
                         THEN MapGet(w.client.groupMessages, groupId).messages
                         ELSE <<>>
             message == [id |-> event.id, created_at |-> event.created_at]
         IN  IF \E k \in 1..Len(messages) : messages[k].id = event.id
             THEN [w EXCEPT !.client.groupMessages =
                      MapSet(@, [id |-> groupId, messages |-> messages])]
             ELSE emit([w EXCEPT !.client.groupMessages =
                          MapSet(@, [id |-> groupId,
                                     messages |-> InsertSorted(messages, message)])],
                       "group:message")

\* _processGroupMembershipEvent(event)
_processGroupMembershipEvent(w, event) ==
    IF event.kind = KIND_GROUP_MEMBER_LIST THEN _processGroupMemberListEvent(w, event)
    ELSE IF event.kind = KIND_GROUP_ADMIN_LIST THEN _processGroupAdminListEvent(w, event)
    ELSE w

\* _processEvent with a group-creation message stored as the entry of its
\* group.
_processEvent_CreationStored(w, event) ==
    LET w1 ==
          CASE event.kind = KIND_METADATA -> _processProfileEvent(w, event)
            [] event.kind = KIND_TEXT_NOTE -> _processGroupMessageEvent(w, event)
            [] event.kind = KIND_GROUP_METADATA -> _processGroupMetadataEvent(w, event)
            [] event.kind = KIND_GROUP_MEMBER_LIST -> _processGroupMemberListEvent(w, event)
            [] event.kind = KIND_GROUP_ADMIN_LIST -> _processGroupAdminListEvent(w, event)
            [] event.kind = KIND_HYPERTUNA_RELAY -> _processHypertunaRelayEvent(w, event)
            [] event.kind = KIND_GROUP_CREATE ->
                   [w EXCEPT !.client.groups =
                       MapSet(@, [parseGroupMetadata(
                                     [event EXCEPT !.kind = KIND_GROUP_METADATA,
                                                   !.d = event.h])
                                  EXCEPT !.createdAt = event.created_at])]
            [] OTHER -> w
    IN  emit(emit(w1, "event"), "event:kind")

\* _processEvent(event, relayUrl)
_processEvent(w, event) ==
    LET w1 ==
          CASE event.kind = KIND_METADATA -> _processProfileEvent(w, event)
            [] event.kind = KIND_TEXT_NOTE -> _processGroupMessageEvent(w, event)
            [] event.kind = KIND_GROUP_METADATA -> _processGroupMetadataEvent(w, event)
            [] event.kind = KIND_GROUP_MEMBER_LIST -> _processGroupMemberListEvent(w, event)
            [] event.kind = KIND_GROUP_ADMIN_LIST -> _processGroupAdminListEvent(w, event)
            [] event.kind = KIND_HYPERTUNA_RELAY -> _processHypertunaRelayEvent(w, event)
            [] OTHER -> w
    IN  emit(emit(w1, "event"), "event:kind")

\* this.activeSubscriptions.forEach(subId => unsubscribe(subId))
RECURSIVE UnsubscribeAll(_, _)
UnsubscribeAll(w, subIds) ==
    IF subIds = <<>> THEN w
    ELSE UnsubscribeAll(unsubscribe(w, Head(subIds)), Tail(subIds))

\* _createSubscriptions()
_createSubscriptions(w) ==
    IF w.client.user = "null" THEN w
    ELSE LET w0 == [UnsubscribeAll(w, w.client.activeSubscriptions)
                      EXCEPT !.client.activeSubscriptions = <<>>]
             w1 == [subscribe(w0, SubUserProfile, <<Filter("fUserProfile", NoTag)>>,
                              "profileCb")
                      EXCEPT !.client.activeSubscriptions = SetAdd(@, SubUserProfile)]
             w2 == [subscribe(w1, SubGroups, <<Filter("fHypertuna", NoTag),
                                              Filter("fAuthors", NoTag)>>, "groupsCb")
                      EXCEPT !.client.activeSubscriptions = SetAdd(@, SubGroups)]
             w3 == [subscribe(w2, SubRelays, <<Filter("fHypertunaRelay", NoTag)>>,
                              "relaysCb")
                      EXCEPT !.client.activeSubscriptions = SetAdd(@, SubRelays)]
         IN  [subscribe(w3, SubUserGroups, <<Filter("fUserGroups", NoTag)>>,
                        "userGroupsCb")
                EXCEPT !.client.activeSubscriptions = SetAdd(@, SubUserGroups)]

\* The callback of 'user-profile'.
ProfileCallback(w, event) == _processProfileEvent(w, event)

\* The callback of 'hypertuna-groups'.
GroupsCallback(w, event) ==
    LET w1 == _processGroupMetadataEvent(w, event)
        groupId == event.d
        hypertunaId == event.hypertuna
    IN  IF groupId = NoTag THEN w1
        ELSE LET w2 == IF hypertunaId # NoTag
                       THEN [w1 EXCEPT
                               !.client.hypertunaGroups =
                                   MapSet(@, [id |-> hypertunaId, groupId |-> groupId]),
                               !.client.groupHypertunaIds =
                                   MapSet(@, [id |-> groupId, hypertunaId |-> hypertunaId])]
                       ELSE w1
             IN  _subscribeToGroupMembership(w2, groupId)

\* The callback of 'hypertuna-relays'.
RelaysCallback(w, event) == _processHypertunaRelayEvent(w, event)

\* The callback of 'user-groups'.
UserGroupsCallback(w, event) ==
    LET w1 == _processGroupMembershipEvent(w, event)
        w2 == [w1 EXCEPT !.client.relevantPubkeys = @ \cup event.p]
    IN  IF event.d = NoTag THEN w2 ELSE _subscribeToGroupContent(w2, event.d)

\* The callback of 'group-members-...'.
MembersCallback(w, event) ==
    LET w1 == [w EXCEPT !.client.relevantPubkeys = @ \cup event.p] IN
    IF event.kind = KIND_GROUP_MEMBER_LIST THEN _processGroupMemberListEvent(w1, event)
    ELSE IF event.kind = KIND_GROUP_ADMIN_LIST THEN _processGroupAdminListEvent(w1, event)
    ELSE w1

\* The callback of 'group-content-...'.
ContentCallback(w, event) == _processGroupMessageEvent(w, event)

\* The subscription id of fetchUserFollows; the name of a pubkey stands for
\* its first eight characters.
ContactsSubId(w) == ContactsPrefix \o substring(<<w.client.user>>, 0, 8)

\* The callback of 'contacts-...' that leaves the subscription registered.
ContactsCallback_KeepsSubscription(w, event) ==
    IF event.kind = KIND_CONTACTS /\ event.pubkey = w.client.user
    THEN [w EXCEPT !.client.follows = @ \cup event.p,
                   !.client.relevantPubkeys = @ \cup event.p,
                   !.client.contactsTimer = FALSE,
                   !.client.phase = IF @ = "follows" THEN "resolved" ELSE @]
    ELSE w

\* The callback of 'contacts-...': the contact list of the user resolves the
\* promise of fetchUserFollows.
ContactsCallback(w, event) ==
    IF event.kind = KIND_CONTACTS /\ event.pubkey = w.client.user
    THEN LET w1 == [w EXCEPT !.client.follows = @ \cup event.p,
                             !.client.relevantPubkeys = @ \cup event.p,
                             !.client.contactsTimer = FALSE]
         IN  [unsubscribe(w1, ContactsSubId(w1)) EXCEPT
                !.client.phase = IF @ = "follows" THEN "resolved" ELSE @]
    ELSE w

\* The setTimeout of fetchUserFollows, 5 s after the call.
ContactsTimedOut(w) ==
    [unsubscribe([w EXCEPT !.client.contactsTimer = FALSE], ContactsSubId(w))
       EXCEPT !.client.phase = IF @ = "follows" THEN "resolved" ELSE @]

\* fetchUserFollows()
fetchUserFollows(w) ==
    IF w.client.user = "null" THEN [w EXCEPT !.client.phase = "resolved"]
    ELSE [subscribe(w, ContactsSubId(w), <<Filter("fContacts", NoTag)>>, "contactsCb")
            EXCEPT !.client.contactsTimer = TRUE,
                   !.client.phase = "follows"]

\* relayUrls.map(url => this.relayManager.addRelay(url))
RECURSIVE AddRelays(_, _)
AddRelays(w, relayUrls) ==
    IF relayUrls = <<>> THEN w
    ELSE AddRelays(addRelay(w, Head(relayUrls)), Tail(relayUrls))

\* init(user, relayUrls) up to its first await.  The user has a name, so that
\* init does not fetch the profile.
init(w, user, relayUrls) ==
    LET w1 == [w EXCEPT !.client.user = user,
                        !.client.relevantPubkeys = @ \cup {user}]
        w2 == AddRelays(w1, relayUrls)
    IN  [w2 EXCEPT !.client.phase = "connecting",
                   !.client.awaiting = (Len(w.conns) + 1)..Len(w2.conns)]

\* The continuations of init that run when the current task ends: after
\* Promise.allSettled(connPromises), fetchUserFollows; after the promise of
\* fetchUserFollows, _createSubscriptions.
ClientMicrotasks(w) ==
    LET w1 == IF /\ w.client.phase = "connecting"
                 /\ \A c \in w.client.awaiting : w.conns[c].promise # "pending"
              THEN fetchUserFollows(w)
              ELSE w
    IN  IF w1.client.phase = "resolved"
        THEN _createSubscriptions([w1 EXCEPT !.client.phase = "ready"])
        ELSE w1

\* The observer of _setupEventHandlers.
RelevanceObserver(w, event) ==
    IF _shouldProcessEvent(w.client, event) THEN _processEvent(w, event) ELSE w

\* _setupEventHandlers()
_setupEventHandlers(w) ==
    onEvent(onDisconnect(onConnect(w, "relay:connect"), "relay:disconnect"),
            "relevanceObserver")

\* new NostrGroupClient(debugMode)
NewClient(w, debugMode) ==
    LET w1 == _setupEventHandlers([w EXCEPT !.client.phase = "constructed"])
    IN  IF debugMode THEN onEvent(w1, "debugObserver") ELSE w1

\* ------------------------------------------------------- inbound dispatch
\* callback(event, relayUrl, originalSubId): the callbacks of the client by
\* their bodies; a callback of the application only shows in the history.
RunCallback(w, callback, event, originalSubId) ==
    LET w0 == [w EXCEPT !.invoked =
                  Append(@, [cb |-> callback, sub |-> originalSubId])]
    IN  CASE callback = "profileCb" -> ProfileCallback(w0, event)
          [] callback = "groupsCb" -> GroupsCallback(w0, event)
          [] callback = "relaysCb" -> RelaysCallback(w0, event)
          [] callback = "userGroupsCb" -> UserGroupsCallback(w0, event)
          [] callback = "membersCb" -> MembersCallback(w0, event)
          [] callback = "contentCb" -> ContentCallback(w0, event)
          [] callback = "contactsCb" -> ContactsCallback(w0, event)
          [] callback = "relevanceObserver" -> RelevanceObserver(w0, event)
          [] OTHER -> w0

\* The forEach with no try/catch around the callback: a callback that throws
\* ends it.
RECURSIVE InvokeAll_NoCatch(_, _, _, _)
InvokeAll_NoCatch(w, callbacks, event, originalSubId) ==
    IF callbacks = <<>> THEN w
    ELSE LET w1 == RunCallback(w, Head(callbacks), event, originalSubId)
         IN  IF Head(callbacks) = Throwing THEN w1
             ELSE InvokeAll_NoCatch(w1, Tail(callbacks), event, originalSubId)

\* callbacks.forEach(callback => callback(event, relayUrl, originalSubId)),
\* each call inside try/catch
RECURSIVE InvokeAll(_, _, _, _)
InvokeAll(w, callbacks, event, originalSubId) ==
    IF callbacks = <<>> THEN w
    ELSE InvokeAll(RunCallback(w, Head(callbacks), event, originalSubId),
                   Tail(callbacks), event, originalSubId)

\* The index of the registered subscription that the forEach of
\* _handleRelayMessage leaves in originalSubId: the last one whose short id is
\* shortSubId, 0 when there is none.
OriginalSubIndex(w, shortSubId) ==
    LET matches == { k \in 1..Len(w.globalSubscriptions) :
                       w.globalSubscriptions[k].shortId = shortSubId }
    IN  IF matches = {} THEN 0
        ELSE CHOOSE k \in matches : \A j \in matches : j <= k

\* An inbound frame that is no relay message: text that JSON.parse rejects,
\* a JSON value that is not an array, an EVENT array with fewer than three
\* elements, an array with a tag the handler does not know.
Malformed(message) ==
    \/ ~message.parses
    \/ ~message.array
    \/ message.tag = "EVENT" /\ message.len < 3
    \/ message.tag \notin {"EVENT", "EOSE", "NOTICE", "OK"}

\* _handleRelayMessage without the test of the frame's length.
_handleRelayMessage_NoLengthTest(w, relayUrl, message) ==
    IF ~message.array THEN w
    ELSE IF message.tag # "EVENT" THEN w
    ELSE LET k == OriginalSubIndex(w, message.sid) IN
         IF k = 0 THEN w
         ELSE LET subscription == w.globalSubscriptions[k]
                  w1 == InvokeAll(w, subscription.callbacks, message.ev,
                                  subscription.id)
              IN  InvokeAll(w1, w.eventCallbacks, message.ev, subscription.id)

\* _handleRelayMessage(relayUrl, message)
_handleRelayMessage(w, relayUrl, message) ==
    IF ~message.array THEN w
    ELSE IF message.tag # "EVENT" THEN w
    ELSE IF message.len < 3 THEN w
    ELSE LET k == OriginalSubIndex(w, message.sid) IN
         IF k = 0 THEN w
         ELSE LET subscription == w.globalSubscriptions[k]
                  w1 == InvokeAll(w, subscription.callbacks, message.ev,
                                  subscription.id)
              IN  InvokeAll(w1, w.eventCallbacks, message.ev, subscription.id)

\* ws.onmessage of connection c
ws_onmessage(w, c, message) ==
    IF ~message.parses THEN w
    ELSE _handleRelayMessage(w, w.conns[c].url, message)

\* ------------------------------------------------------------------ actions
InitOn(platforms) ==
    /\ relays = <<>>
    /\ conns = <<>>
    /\ globalSubscriptions = <<>>
    /\ requestQueue = <<>>
    /\ processingQueue = FALSE
    /\ lastRequestTime = 0
    /\ drainTimers = <<>>
    /\ reconnectTimers = {}
    /\ attempts = <<>>
    /\ pubs = <<>>
    /\ now = StartTime
    /\ executed = <<>>
    /\ nBuffered = 0
    /\ addRelayCalls = 0
    /\ sendAfterClose \in platforms
    /\ eventCallbacks = <<>>
    /\ client = NoClient
    /\ invoked = <<>>
    /\ emitted = <<>>
    /\ nFrames = 0
    /\ lastFrame = <<>>
    /\ connectCallbacks = <<>>
    /\ disconnectCallbacks = <<>>
    /\ profileFlow = NoProfileFlow

\* The manager in a browser.
Init == InitOn({"discard"})

\* The application calls addRelay(url), url drawn from URLS; at most maxConns
\* sockets are created in a run.  With maxCalls > 0 the calls are counted and
\* at most maxCalls are made.
CallAddRelay(URLS, maxConns, maxCalls) ==
    \E url \in URLS :
        /\ RelaysHas(World, NormalizeUrl(url)) \/ Len(conns) < maxConns
        /\ maxCalls > 0 => addRelayCalls < maxCalls
        /\ Becomes([addRelay(World, url) EXCEPT
               !.addRelayCalls = IF maxCalls > 0 THEN @ + 1 ELSE @])

\* The application calls removeRelay(url), with a url as it gave it to
\* addRelay or as getRelays() returns it.
CallRemoveRelay(URLS) ==
    \E url \in URLS \cup {NormalizeUrl(u) : u \in URLS} :
        /\ Becomes(removeRelay(World, url))

\* The application calls subscribe(id, filters, callback); at most maxWork
\* frames are enqueued or buffered before the call.
CallSubscribe(IDS, FILTERS, maxWork) ==
    \E id \in IDS, filters \in FILTERS, cb \in Callbacks :
        /\ Work(World) < maxWork
        /\ Becomes(subscribe(World, id, filters, cb))

\* The application calls unsubscribe(id).
CallUnsubscribe(IDS) ==
    \E id \in IDS :
        /\ Becomes(unsubscribe(World, id))

\* The application calls publish(event), at most maxPublish times in a run.
CallPublish(EVENTS, maxPublish) ==
    \E event \in EVENTS :
        /\ Len(pubs) < maxPublish
        /\ Becomes(Microtasks(publish(World, event)))

\* The open event of connection c.
WsOpen ==
    \E c \in 1..Len(conns) :
        /\ conns[c].readyState = "CONNECTING"
        /\ Becomes(ClientMicrotasks(Microtasks(ws_onopen(
               [World EXCEPT !.conns[c].readyState = "OPEN"], c))))

\* The error event of connection c: the transport has failed and the socket
\* is on its way to closed.
WsError ==
    \E c \in 1..Len(conns) :
        /\ conns[c].readyState \in {"CONNECTING", "OPEN"}
        /\ Becomes(ClientMicrotasks(ws_onerror(
               [World EXCEPT !.conns[c].readyState = "CLOSING"], c)))

\* The peer starts the closing handshake of connection c.
WsClosing ==
    \E c \in 1..Len(conns) :
        /\ conns[c].readyState = "OPEN"
        /\ Becomes([World EXCEPT !.conns[c].readyState = "CLOSING"])

\* The close event of connection c.
WsClose ==
    \E c \in 1..Len(conns) :
        /\ conns[c].readyState # "CLOSED"
        /\ Becomes(ws_onclose(
               [World EXCEPT !.conns[c].readyState = "CLOSED"], c))

\* A message event of connection c carrying an OK frame.
WsMessageOk ==
    \E c \in 1..Len(conns), i \in 1..Len(OkFrames) :
        /\ conns[c].readyState = "OPEN"
        /\ \E a \in 1..Len(attempts) : attempts[a].conn = c /\ attempts[a].listening
        /\ Becomes(Microtasks(MessageListeners(World, c, 1, OkFrames[i])))

\* A message event of connection c carrying a frame that is not OK, at most
\* maxFrames in a run: ws.onmessage runs, then the listeners of publish.  The
\* history keeps the frame and whether the frame before it, on the same
\* connection, was malformed.
WsMessageEvent(FRAMES, maxFrames) ==
    \E c \in 1..Len(conns), message \in FRAMES :
        /\ conns[c].readyState = "OPEN"
        /\ nFrames < maxFrames
        /\ Becomes(ClientMicrotasks(Microtasks(MessageListeners(ws_onmessage(
               [World EXCEPT !.invoked = <<>>, !.emitted = <<>>,
                             !.nFrames = @ + 1,
                             !.lastFrame =
                                 <<[conn |-> c, sid |-> message.sid,
                                    ev |-> message.ev, parses |-> message.parses,
                                    array |-> message.array, tag |-> message.tag,
                                    len |-> message.len,
                                    after |-> /\ lastFrame # <<>>
                                              /\ lastFrame[1].conn = c
                                              /\ Malformed(lastFrame[1])]>>],
               c, message), c, 1, message))))

\* The application calls onEvent(callback), at most maxObservers times with
\* effect.
CallOnEvent(CBS, maxObservers) ==
    \E callback \in CBS :
        /\ Len(eventCallbacks) < maxObservers
        /\ Becomes(onEvent(World, callback))

\* The application calls subscribe(id, filters, callback) with a callback of
\* CBS.
CallSubscribeWith(IDS, FILTERS, CBS, maxWork) ==
    \E id \in IDS, filters \in FILTERS, cb \in CBS :
        /\ Work(World) < maxWork
        /\ SubIndex(World, id) = 0
        /\ Becomes(subscribe(World, id, filters, cb))

\* The application calls on(eventName, callback) of the client it constructed,
\* at most maxListeners times.
CallOn(NAMES, CBS, maxListeners) ==
    \E eventName \in NAMES, callback \in CBS :
        /\ client.phase # "none"
        /\ Len(client.eventListeners) < maxListeners
        /\ Becomes(on(World, eventName, callback))

\* The application constructs the client.
ClientConstruct(DEBUG) ==
    \E debugMode \in DEBUG :
        /\ client.phase = "none"
        /\ Becomes(NewClient(World, debugMode))

\* The application calls init(user, relayUrls) of the client it constructed.
ClientInit(USERS, URLLISTS) ==
    \E user \in USERS, relayUrls \in URLLISTS :
        /\ client.phase = "constructed"
        /\ Becomes(ClientMicrotasks(init(World, user, relayUrls)))

\* The application calls updateProfile(profile) of the integration, once in a
\* run.
CallUpdateProfile ==
    /\ profileFlow.pc = "idle"
    /\ Becomes(Microtasks(updateProfile(World)))

\* The timer that updateProfile or publishEvent awaits fires.
ProfileTimer ==
    /\ profileFlow.pc \in {"innerWait", "outerWait", "settle"}
    /\ Becomes(Microtasks(FlowTimerFired(World)))

\* The 5 s timer of fetchUserFollows fires.
ContactsTimer ==
    /\ client.contactsTimer
    /\ Becomes(ClientMicrotasks(ContactsTimedOut(World)))

\* The close event of a connection that has opened or has reported an error:
\* a connection that fails before it opens gets the error event first.
WsCloseAfter ==
    \E c \in 1..Len(conns) :
        /\ conns[c].readyState \in {"OPEN", "CLOSING"}
        /\ Becomes(ws_onclose(
               [World EXCEPT !.conns[c].readyState = "CLOSED"], c))

\* The application calls onConnect(callback), at most maxListeners times
\* with effect.
CallOnConnect(CBS, maxListeners) ==
    \E callback \in CBS :
        /\ Len(connectCallbacks) < maxListeners
        /\ Becomes(onConnect(World, callback))

\* The application calls onDisconnect(callback), at most maxListeners times
\* with effect.
CallOnDisconnect(CBS, maxListeners) ==
    \E callback \in CBS :
        /\ Len(disconnectCallbacks) < maxListeners
        /\ Becomes(onDisconnect(World, callback))

\* The reconnection timer armed by the close event of connection c fires.
ReconnectTimer(maxConns) ==
    \E c \in reconnectTimers :
        /\ RelaysHas(World, conns[c].url) \/ Len(conns) < maxConns
        /\ Becomes(addRelay(
               [World EXCEPT !.reconnectTimers = @ \ {c}], conns[c].url))

\* The 10 s timer of publish attempt a fires.
PublishTimeout ==
    \E a \in 1..Len(attempts) :
        /\ attempts[a].timer
        /\ Becomes(Microtasks(PublishTimedOut(World, a)))

\* A timer of the drain loop fires, at or after its deadline.
DrainTimer ==
    \E i \in 1..Len(drainTimers) :
        /\ drainTimers[i] <= now
        /\ Becomes(Microtasks(_processQueue(
               [World EXCEPT !.drainTimers = RemoveAt(@, i)])))

\* The program reads the clock only in _processQueue, as now - lastRequestTime
\* < minTimeBetweenRequests, and through the deadlines of the drain timers.
\* Once the interval has elapsed and no drain timer is still ahead, a later
\* reading cannot be told from the present one.
TimeMatters ==
    \/ now - lastRequestTime < minTimeBetweenRequests
    \/ \E i \in 1..Len(drainTimers) : drainTimers[i] > now

\* Time passes.
Tick ==
    /\ TimeMatters
    /\ now' = now + TickMs
    /\ UNCHANGED << relays, conns, globalSubscriptions, requestQueue,
                    processingQueue, lastRequestTime, drainTimers,
                    reconnectTimers, attempts, pubs, executed, nBuffered,
                    addRelayCalls, sendAfterClose, eventCallbacks, client,
                    invoked, emitted, nFrames, lastFrame, connectCallbacks,
                    disconnectCallbacks, profileFlow >>

\* The connection pool alone: no subscription, no publish.
NextPool ==
    \/ CallAddRelay(RawURLs, PoolConns, PoolCalls)
    \/ CallRemoveRelay(RawURLs)
    \/ WsOpen
    \/ WsError
    \/ WsClosing
    \/ WsClose
    \/ ReconnectTimer(PoolConns)

SpecPool == Init /\ [][NextPool]_vars

\* Publishing over the pool.
NextPublish ==
    \/ CallAddRelay(TwoURLs, PubConns, 0)
    \/ CallRemoveRelay(TwoURLs)
    \/ CallPublish(Events, PubCalls)
    \/ WsOpen
    \/ WsError
    \/ WsClosing
    \/ WsClose
    \/ WsMessageOk
    \/ ReconnectTimer(PubConns)
    \/ PublishTimeout
    \/ DrainTimer
    \/ Tick

SpecPublish == Init /\ [][NextPublish]_vars

\* The scheduler under subscribe, unsubscribe, publish and the open flush.
NextSched ==
    \/ CallAddRelay(OneURL, SchedConns, 0)
    \/ CallRemoveRelay(OneURL)
    \/ CallSubscribe({SubGroups}, {<<"fA">>}, SchedWork)
    \/ CallUnsubscribe({SubGroups})
    \/ CallPublish({GoodEvent}, SchedCalls)
    \/ WsOpen
    \/ WsClosing
    \/ WsClose
    \/ ReconnectTimer(SchedConns)
    \/ DrainTimer
    \/ Tick

SpecSched == Init /\ [][NextSched]_vars

\* The drain loop on either platform, with timers that fire and a clock that
\* advances.
NextDrain ==
    \/ CallAddRelay(OneURL, DrainConns, 0)
    \/ CallSubscribe({SubGroups}, {<<"fA">>}, DrainWork)
    \/ CallUnsubscribe({SubGroups})
    \/ WsOpen
    \/ WsClosing
    \/ WsClose
    \/ DrainTimer
    \/ Tick

SpecDrain ==
    /\ InitOn({"discard", "throw"})
    /\ [][NextDrain]_vars
    /\ WF_vars(DrainTimer)
    /\ WF_vars(Tick)

\* The subscription multiplexer over successive connections of one relay: two
\* logical ids, two filter lists.
NextMux ==
    \/ CallAddRelay(OneURL, MuxConns, 0)
    \/ CallRemoveRelay(OneURL)
    \/ CallSubscribe(SubIds, FilterLists, MuxWork)
    \/ CallUnsubscribe(SubIds)
    \/ WsOpen
    \/ WsClosing
    \/ WsClose
    \/ ReconnectTimer(MuxConns)
    \/ DrainTimer
    \/ Tick

SpecMux == Init /\ [][NextMux]_vars

\* subscribe and unsubscribe over a pool of two relays.
NextFanout ==
    \/ CallAddRelay(TwoURLs, FanConns, 0)
    \/ CallRemoveRelay(TwoURLs)
    \/ CallSubscribe(SubIds, {<<"fA">>}, FanWork)
    \/ CallUnsubscribe(SubIds)
    \/ WsOpen
    \/ WsClose
    \/ DrainTimer
    \/ Tick

SpecFanout == Init /\ [][NextFanout]_vars

\* Every operation over every input.
\* Inbound dispatch: three logical ids, two of them with one short id, and
\* frames under a short id that is registered, shared or unknown.
DispIds == { SubGroups, SubRelays, SubShort }
InboundFrame(sid, ev) ==
    [parses |-> TRUE, array |-> TRUE, tag |-> "EVENT", len |-> 3, sid |-> sid,
     ev |-> ev]
DispInbound ==
    { InboundFrame(sid, BaseEvent) :
        sid \in { _shortenSubscriptionId(SubGroups), SubShort, <<"n","o","n","e">> } }
Observers == { "obs1", "obs2", "undefined" }

NextDispatch ==
    \/ CallAddRelay(OneURL, DispConns, 0)
    \/ CallSubscribe(DispIds, {<<"fA">>}, DispWork)
    \/ CallUnsubscribe(DispIds)
    \/ CallOnEvent(Observers, DispObservers)
    \/ WsOpen
    \/ WsMessageEvent(DispInbound, DispFrames)
    \/ DrainTimer
    \/ Tick

SpecDispatch == Init /\ [][NextDispatch]_vars

\* The client on one relay: the messages a relay may send under the short ids
\* of the client's subscriptions.
HypertunaId == <<"h", "i", "d">>
Metadata1 ==
    [BaseEvent EXCEPT !.id = "m1", !.kind = KIND_GROUP_METADATA, !.d = GroupG1]
Metadata2 == [Metadata1 EXCEPT !.id = "m2", !.created_at = 2]
Metadata3 == [Metadata2 EXCEPT !.id = "m3", !.hypertuna = HypertunaId, !.i = TRUE]
Metadata4 == [Metadata2 EXCEPT !.id = "m4"]
Roster1 ==
    [BaseEvent EXCEPT !.id = "r1", !.kind = KIND_GROUP_MEMBER_LIST, !.d = GroupG1,
                      !.p = {"rl"}]
Roster2 == [Roster1 EXCEPT !.id = "r2", !.p = {"me", "rl"}]
Contacts1 ==
    [BaseEvent EXCEPT !.id = "c1", !.kind = KIND_CONTACTS, !.pubkey = "me",
                      !.p = {"fo"}]
Profile1 == [BaseEvent EXCEPT !.id = "p1", !.kind = KIND_METADATA]
Note1 ==
    [BaseEvent EXCEPT !.id = "t1", !.kind = KIND_TEXT_NOTE, !.pubkey = "rl",
                      !.h = GroupG1]
Relay1 ==
    [BaseEvent EXCEPT !.id = "h1", !.kind = KIND_HYPERTUNA_RELAY,
                      !.hypertuna = HypertunaId, !.h = GroupG1, !.i = TRUE]

ClientInbound ==
    { InboundFrame(_shortenSubscriptionId(ContactsPrefix), Contacts1),
      InboundFrame(_shortenSubscriptionId(SubUserProfile), Profile1),
      InboundFrame(_shortenSubscriptionId(SubUserGroups), Roster1),
      InboundFrame(_shortenSubscriptionId(SubUserGroups), Roster2),
      InboundFrame(_shortenSubscriptionId(GroupContentPrefix), Note1),
      InboundFrame(_shortenSubscriptionId(SubGroups), Relay1) }
      \cup { InboundFrame(_shortenSubscriptionId(SubGroups), ev) :
                ev \in { Metadata1, Metadata2, Metadata3, Metadata4 } }

NextClient ==
    \/ ClientConstruct({TRUE})
    \/ ClientInit({Me}, {<<<<"a">>>>})
    \/ ContactsTimer
    \/ WsOpen
    \/ WsMessageEvent(ClientInbound, ClientFrames)
    \/ DrainTimer
    \/ Tick

SpecClient == Init /\ [][NextClient]_vars

\* The rosters of the client: member and admin lists of one group with two
\* timestamps, and member lists of two groups whose ids share their first
\* eight characters.
GroupA == <<"a", "b", "c", "d", "e", "f", "g", "h", "1">>
GroupB == <<"a", "b", "c", "d", "e", "f", "g", "h", "2">>
Roster3 == [Roster2 EXCEPT !.id = "r3", !.created_at = 2, !.p = {"me"}]
Admin1 ==
    [Roster2 EXCEPT !.id = "a1", !.kind = KIND_GROUP_ADMIN_LIST, !.p = {"rl"}]
Admin2 == [Admin1 EXCEPT !.id = "a2", !.created_at = 2, !.p = {"me"}]
RosterA == [Roster2 EXCEPT !.id = "rA", !.d = GroupA, !.p = {"me"}]
RosterB == [Roster2 EXCEPT !.id = "rB", !.d = GroupB, !.p = {"me", "fo"}]

RosterInbound ==
    { InboundFrame(_shortenSubscriptionId(SubUserGroups), ev) :
        ev \in { Roster1, Roster2, Roster3, Admin1, Admin2, RosterA, RosterB } }

NextRoster ==
    \/ ClientConstruct({TRUE})
    \/ ClientInit({Me}, {<<<<"a">>>>})
    \/ ContactsTimer
    \/ WsOpen
    \/ WsMessageEvent(RosterInbound, RosterFrames)
    \/ DrainTimer
    \/ Tick

SpecRoster == Init /\ [][NextRoster]_vars

\* The groups of the client: the creation message of a group and its metadata
\* message, as createGroupCreationEvent makes them, and metadata of others.
Creation1 ==
    [BaseEvent EXCEPT !.id = "k1", !.kind = KIND_GROUP_CREATE, !.pubkey = "me",
                      !.h = GroupG1, !.hypertuna = HypertunaId, !.i = TRUE,
                      !.name = <<"created">>]
MetadataOfCreation ==
    [BaseEvent EXCEPT !.id = "k2", !.kind = KIND_GROUP_METADATA, !.pubkey = "me",
                      !.created_at = 2, !.d = GroupG1, !.hypertuna = HypertunaId,
                      !.i = TRUE, !.name = <<"renamed">>]

GroupInbound ==
    { InboundFrame(_shortenSubscriptionId(SubGroups), ev) :
        ev \in { Creation1, MetadataOfCreation, Metadata1, Metadata3 } }

NextGroups ==
    \/ ClientConstruct({TRUE})
    \/ ClientInit({Me}, {<<<<"a">>>>})
    \/ ContactsTimer
    \/ WsOpen
    \/ WsMessageEvent(GroupInbound, GroupFrames)
    \/ DrainTimer
    \/ Tick

SpecGroups == Init /\ [][NextGroups]_vars

\* The timeline of one group: the roster that makes the user a member, and
\* three notes, two of them with one timestamp, that a relay may send again.
Note2 == [Note1 EXCEPT !.id = "t2", !.created_at = 2]
Note3 == [Note2 EXCEPT !.id = "t3", !.pubkey = "me"]

TimelineInbound ==
    { InboundFrame(_shortenSubscriptionId(SubUserGroups), Roster2) }
      \cup { InboundFrame(_shortenSubscriptionId(GroupContentPrefix), ev) :
                ev \in { Note1, Note2, Note3 } }

NextTimeline ==
    \/ ClientConstruct({TRUE})
    \/ ClientInit({Me}, {<<<<"a">>>>})
    \/ ContactsTimer
    \/ WsOpen
    \/ WsMessageEvent(TimelineInbound, TimelineFrames)
    \/ DrainTimer
    \/ Tick

SpecTimeline == Init /\ [][NextTimeline]_vars

\* Connection attempts with listeners of the application, one of which may
\* throw.
Listeners == { "obs1", Throwing, "undefined" }

NextConnect ==
    \/ CallOnConnect(Listeners, ConnListeners)
    \/ CallAddRelay(TwoURLs, ConnConns, 0)
    \/ WsOpen
    \/ WsError
    \/ WsClosing
    \/ WsCloseAfter
    \/ ReconnectTimer(ConnConns)

SpecConnect == Init /\ [][NextConnect]_vars

\* Transport errors on a relay with a subscription.
NextError ==
    \/ CallAddRelay(OneURL, ErrConns, 0)
    \/ CallRemoveRelay(OneURL)
    \/ CallSubscribe({SubShort}, {<<"fA">>}, ErrWork)
    \/ WsOpen
    \/ WsError
    \/ WsClose
    \/ DrainTimer
    \/ Tick

SpecError == Init /\ [][NextError]_vars

\* Well-formed and malformed inbound frames on one connection with a
\* subscription, an observer and a publish that awaits its OK.
Unparseable ==
    [parses |-> FALSE, array |-> FALSE, tag |-> "", len |-> 0, sid |-> NoTag,
     ev |-> BaseEvent]
NotArray == [Unparseable EXCEPT !.parses = TRUE]
ShortEvent(sid) == [InboundFrame(sid, BaseEvent) EXCEPT !.len = 2]
UnknownTag(sid) == [InboundFrame(sid, BaseEvent) EXCEPT !.tag = "AUTH", !.len = 2]
MalInbound ==
    { InboundFrame(SubShort, BaseEvent), Unparseable, NotArray,
      ShortEvent(SubShort), UnknownTag(SubShort) }

NextMalformed ==
    \/ CallAddRelay(OneURL, MalConns, 0)
    \/ CallSubscribe({SubShort}, {<<"fA">>}, MalWork)
    \/ CallOnEvent({"obs1"}, MaxObservers)
    \/ CallPublish({GoodEvent}, MalPubs)
    \/ WsOpen
    \/ WsMessageEvent(MalInbound, MalFrames)
    \/ WsMessageOk
    \/ DrainTimer
    \/ Tick

SpecMalformed == Init /\ [][NextMalformed]_vars

\* The profile update of a user who has just logged in, while the client
\* still waits for the contact list, over one relay whose publishes succeed,
\* fail or time out.
NextProfile ==
    \/ ClientConstruct({FALSE})
    \/ ClientInit({Me}, {<<>>})
    \/ CallAddRelay(OneURL, ProfConns, 0)
    \/ CallUpdateProfile
    \/ ProfileTimer
    \/ WsOpen
    \/ WsMessageOk
    \/ PublishTimeout
    \/ DrainTimer
    \/ Tick

SpecProfile == Init /\ [][NextProfile]_vars

\* One inbound message of the user under a subscription whose callback
\* throws, with observers of the manager and listeners of the client that
\* throw or return.
NoteOfMe == [Note1 EXCEPT !.id = "t9", !.pubkey = "me"]
IsoInbound == { InboundFrame(SubShort, NoteOfMe) }

NextIsolation ==
    \/ ClientConstruct({FALSE})
    \/ ClientInit({Me}, {<<<<"a">>>>})
    \/ CallSubscribeWith({SubShort}, {<<"fA">>}, {Throwing}, IsoWork)
    \/ CallOnEvent({Throwing, "obs1"}, IsoObservers)
    \/ CallOn({"event:kind", "group:message"}, {Throwing, "lst1"}, IsoListeners)
    \/ WsOpen
    \/ WsMessageEvent(IsoInbound, IsoFrames)
    \/ DrainTimer
    \/ Tick

SpecIsolation == Init /\ [][NextIsolation]_vars

\* The startup of the client with contact lists of the user and of another
\* author, and a timer that fires.
Contacts2 == [Contacts1 EXCEPT !.id = "c2", !.p = {"rl"}]
ContactsOther == [Contacts1 EXCEPT !.id = "c3", !.pubkey = "st", !.p = {"st"}]
FollowInbound ==
    { InboundFrame(_shortenSubscriptionId(ContactsPrefix), ev) :
        ev \in { Contacts1, Contacts2, ContactsOther } }

NextFollows ==
    \/ ClientConstruct({FALSE})
    \/ ClientInit({Me}, {<<<<"a">>>>})
    \/ ContactsTimer
    \/ WsOpen
    \/ WsMessageEvent(FollowInbound, FollowFrames)
    \/ DrainTimer
    \/ Tick

\* ContactsTimer is enabled exactly while the timer is armed and disarms it,
\* so that WF_vars(ContactsTimer) says that the timer is not armed for ever.
TimerFairness == []<>(~client.contactsTimer)

SpecFollows == Init /\ [][NextFollows]_vars /\ TimerFairness

\* The open event of a connection with buffered frames and registered
\* subscriptions, under a client that listens for the connection.
NextOpen ==
    \/ ClientConstruct({FALSE})
    \/ CallAddRelay(OneURL, OpenConns, 0)
    \/ CallSubscribe({SubGroups, SubShort}, {<<"fA">>}, OpenWork)
    \/ CallPublish({GoodEvent}, OpenCalls)
    \/ WsOpen
    \/ DrainTimer
    \/ Tick

SpecOpen == Init /\ [][NextOpen]_vars

Next ==
    \/ CallUpdateProfile
    \/ ProfileTimer
    \/ CallAddRelay(RawURLs, MaxConns, 0)
    \/ CallRemoveRelay(RawURLs)
    \/ CallSubscribe(SubIds, FilterLists, MaxWork)
    \/ CallUnsubscribe(SubIds)
    \/ CallPublish(Events, MaxPublish)
    \/ WsOpen
    \/ WsError
    \/ WsClosing
    \/ WsClose
    \/ WsMessageOk
    \/ WsMessageEvent(DispInbound \cup ClientInbound, MaxFrames)
    \/ CallOnEvent(Observers, MaxObservers)
    \/ CallOnConnect(Listeners, MaxObservers)
    \/ CallOnDisconnect(Listeners, MaxObservers)
    \/ CallSubscribeWith(SubIds, FilterLists, {Throwing}, MaxWork)
    \/ CallOn({"event:kind", "group:message"}, {Throwing, "lst1"}, MaxObservers)
    \/ ClientConstruct(BOOLEAN)
    \/ ClientInit({Me}, {<<<<"a">>>>})
    \/ ContactsTimer
    \/ ReconnectTimer(MaxConns)
    \/ PublishTimeout
    \/ DrainTimer
    \/ Tick

Spec == Init /\ [][Next]_vars

\* ================================================================== claims

\* The endpoint of the pool for a normalized url: its relayData, or 0.
PoolConn(url) == IF RelaysHas(World, url) THEN RelaysGet(World, url) ELSE 0
\* The state of the endpoint of a normalized url.
EndpointState(url) ==
    IF RelaysHas(World, url) THEN conns[RelaysGet(World, url)].status ELSE "removed"

\* The normalized URLs the pool can hold.
NormURLs == { NormalizeUrl(url) : url \in RawURLs }

\* C1: whenever the reconnection timer armed by an endpoint's close event
\* fires and removeRelay has not removed the endpoint, a new connection
\* attempt is made for its URL: a socket is opened and the endpoint is
\* connecting again.
C1_ReconnectsAfterClose ==
    [][ \A c \in reconnectTimers : \A u \in NormURLs :
          (c \notin reconnectTimers' /\ conns[c].url = u /\ PoolConn(u) = c)
          => /\ Len(conns') = Len(conns) + 1
             /\ EndpointState(u)' = "connecting" ]_vars

\* C2: once removeRelay has removed an endpoint, the close event of its
\* connection does not lead to a reconnection: when the reconnection timer of
\* a connection fires while its URL is absent from the pool, no socket is
\* opened and the URL stays absent.
C2_RemovedIsAbsorbing ==
    [][ \A c \in reconnectTimers : \A u \in NormURLs :
          (c \notin reconnectTimers' /\ conns[c].url = u
             /\ EndpointState(u) = "removed")
          => /\ Len(conns') = Len(conns)
             /\ EndpointState(u)' = "removed" ]_vars

\* C3: the pool holds at most one endpoint per normalized URL, each under its
\* normalized URL, and a socket is opened only for a URL that has no endpoint
\* in the pool: while the endpoint of a URL stays in the pool, whatever its
\* state, it stays the same endpoint and no socket is opened for that URL
\* (addRelay with a URL already present opens no connection).
OneEndpointPerUrl ==
    /\ \A i, j \in 1..Len(relays) : relays[i].url = relays[j].url => i = j
    /\ \A i \in 1..Len(relays) :
          /\ NormalizeUrl(relays[i].url) = relays[i].url
          /\ conns[relays[i].conn].url = relays[i].url
C3_AddRelayIdempotent ==
    /\ []OneEndpointPerUrl
    /\ [][ \A u \in NormURLs : \A c \in 1..Len(conns) :
             (PoolConn(u) = c /\ EndpointState(u)' # "removed")
             => /\ PoolConn(u)' = c
                /\ \A d \in (Len(conns) + 1)..Len(conns') : conns'[d].url # u
         ]_vars

\* C3 witness: the application has called addRelay twice, the second time
\* with a URL whose endpoint is in the pool (not closed, not removed), and
\* there is one endpoint and one socket.
C3_Witness ==
    /\ addRelayCalls = 2
    /\ Len(conns) = 1
    /\ Len(relays) = 1
    /\ conns[1].status = "open"

\* The attempts of publish p, and their outcomes.
AttemptsOf(p) == { a \in 1..Len(attempts) : attempts[a].pub = p }
NoneSucceeded(p) ==
    \A a \in AttemptsOf(p) : attempts[a].outcome \notin {"success", "queued"}
AllEnded(p) == \A a \in AttemptsOf(p) : attempts[a].outcome # "pending"

\* What the specification calls a message that fails structural validation.
StructurallyInvalid(event) ==
    \/ event.id = "undefined" \/ event.pubkey = "undefined" \/ event.sigLen = 0
    \/ event.sigLen # 128
    \/ event.tags # "array"
    \/ event.kind # "number"
    \/ event.created_at \notin {"number", "zero"}

\* C4: publish of a structurally valid message rejects if and only if every
\* per-relay attempt has ended and none ended as acknowledged-success or
\* queued (also with no endpoint in the pool); when the attempts have ended
\* otherwise, it resolves successfully.
C4_RejectsIffNoAttemptSucceeded ==
    \A p \in 1..Len(pubs) :
        _validateEvent(pubs[p].event) =>
            /\ pubs[p].state = "rejected" <=> (AllEnded(p) /\ NoneSucceeded(p))
            /\ AllEnded(p) /\ ~NoneSucceeded(p) => pubs[p].state = "resolved"
            /\ pubs[p].state = "resolved" => ~NoneSucceeded(p)

\* C4 witness: a valid publish was rejected after one relay timed out and
\* another answered OK false.
C4_Witness ==
    \E p \in 1..Len(pubs) :
        /\ pubs[p].state = "rejected"
        /\ pubs[p].reason = "Failed to publish to any relays"
        /\ \E a \in AttemptsOf(p) : attempts[a].outcome = "timeout"
        /\ \E a \in AttemptsOf(p) : attempts[a].outcome = "failure"

\* One relay answered ["OK", id, true] and every other relay timed out.
OneOkRestTimedOut(p) ==
    /\ Cardinality({a \in AttemptsOf(p) : attempts[a].outcome = "success"}) = 1
    /\ \A a \in AttemptsOf(p) : attempts[a].outcome \in {"success", "timeout"}

\* C5 as stated: with one OK true and N-1 timeouts, publish resolves
\* successfully and its result carries the outcome of every endpoint, the
\* timed-out ones included.
C5_ResultReflectsEveryRelay ==
    \A p \in 1..Len(pubs) :
        (pubs[p].state # "pending" /\ OneOkRestTimedOut(p))
        => /\ pubs[p].state = "resolved"
           /\ \A a \in AttemptsOf(p) :
                 \E k \in 1..Len(pubs[p].relays) : pubs[p].relays[k] = attempts[a].url

\* C5 amended: with one OK true and N-1 timeouts, publish resolves
\* successfully and its result names the successful relay only: count is 1,
\* relays is that relay's url, queued is false.
C5_ResultNamesSuccessfulRelay ==
    \A p \in 1..Len(pubs) :
        (pubs[p].state # "pending" /\ OneOkRestTimedOut(p))
        => /\ pubs[p].state = "resolved"
           /\ pubs[p].count = 1
           /\ pubs[p].queued = FALSE
           /\ \E a \in AttemptsOf(p) :
                 /\ attempts[a].outcome = "success"
                 /\ pubs[p].relays = <<attempts[a].url>>

\* C5 witness: a publish over two relays has ended with one OK true and one
\* timeout.
C5_Witness ==
    \E p \in 1..Len(pubs) :
        /\ pubs[p].state # "pending"
        /\ OneOkRestTimedOut(p)
        /\ Cardinality(AttemptsOf(p)) = 2

\* C6: publish of a message that fails structural validation rejects, opens
\* no attempt, and leaves the scheduler queue, the drain timers, every
\* endpoint (its frame buffer, what it sent) and every attempt (its listener,
\* its timer) as they are.
C6_InvalidPublishTouchesNothing ==
    [][ (Len(pubs') = Len(pubs) + 1 /\ StructurallyInvalid(pubs'[Len(pubs')].event))
        => /\ pubs'[Len(pubs')].state = "rejected"
           /\ UNCHANGED << relays, conns, requestQueue, processingQueue,
                           lastRequestTime, drainTimers, attempts, executed,
                           nBuffered >>
           /\ \A p \in 1..Len(pubs) : pubs'[p] = pubs[p] ]_vars

\* C6 witness: a message with a 64-character sig was rejected while an
\* endpoint of the pool was open.
C6_Witness ==
    \E p \in 1..Len(pubs) :
        /\ pubs[p].event.sigLen = 64
        /\ pubs[p].state = "rejected"
        /\ attempts = <<>>
        /\ \E i \in 1..Len(relays) : conns[relays[i].conn].status = "open"

\* C7: a per-relay attempt has one outcome among acknowledged-success,
\* acknowledged-failure, queued and timed-out; while it has none its timer is
\* armed, and once it has one no later OK frame, timer expiry or send result
\* changes it.
AttemptOutcomes == {"success", "failure", "queued", "timeout"}
C7_OutcomeSetOnce ==
    /\ [](\A a \in 1..Len(attempts) :
            /\ attempts[a].outcome \in AttemptOutcomes \cup {"pending"}
            /\ attempts[a].outcome = "pending" => attempts[a].timer)
    /\ [][ \A a \in 1..Len(attempts) :
             attempts[a].outcome # "pending" =>
                 attempts'[a].outcome = attempts[a].outcome ]_vars

\* C7 witness: the timer of an attempt already reported as queued has fired,
\* and an attempt acknowledged by OK true exists.
C7_Witness ==
    /\ \E a \in 1..Len(attempts) :
          attempts[a].outcome = "queued" /\ ~attempts[a].timer
    /\ \E a \in 1..Len(attempts) : attempts[a].outcome = "success"

\* C8: a frame buffered on an endpoint is never discarded without having been
\* sent: no flush closure finds its socket not open and drops its frame.
C8_BufferedFrameNeverDiscarded ==
    \A c \in 1..Len(conns) : conns[c].dropped = 0

\* C9: the scheduler never executes two queued closures less than
\* minTimeBetweenRequests (50 ms) apart, whatever the relays they are for.
C9_MinimumSpacing ==
    \A i \in 2..Len(executed) :
        executed[i].at - executed[i - 1].at >= minTimeBetweenRequests

\* C9 witness: three closures were executed, two of them exactly 50 ms
\* apart, and another one is waiting in the queue.
C9_Witness ==
    /\ Len(executed) >= 3
    /\ \E i \in 2..Len(executed) :
          executed[i].at - executed[i - 1].at = minTimeBetweenRequests
    /\ Len(requestQueue) >= 1

\* C10: the scheduler executes the closures in exactly the order of their
\* enqueue, so on every connection the frames go out in enqueue order, and the
\* frames flushed at open go out in the order they were buffered.
C10_EnqueueOrder ==
    /\ [](\A i \in 1..Len(executed) : executed[i].n = i)
    /\ [][ \A c \in 1..Len(conns) :
             /\ conns'[c].sentN >= conns[c].sentN
             /\ conns'[c].sentB >= conns[c].sentB ]_vars

\* C10 witness: two frames were buffered on the one endpoint while it was
\* connecting, and both were flushed at open and sent, the second one last.
C10_Witness ==
    /\ Len(conns) = 1
    /\ nBuffered = 2
    /\ conns[1].pendingMessages = <<>>
    /\ conns[1].dropped = 0
    /\ conns[1].sentB = 2
    /\ conns[1].sentN = 2
    /\ requestQueue = <<>>

\* Closures handed to the scheduler so far.
Enqueued == Len(executed) + Len(requestQueue)
\* The ordinals of the closures a run of SpecDrain can enqueue.
DrainOrdinals == 1..(2 * DrainWork)

\* C11: every closure enqueued in the scheduler is eventually executed, and
\* exactly once, also when an earlier closure throws; while the queue is not
\* empty the drain loop is running with a timer armed, so it stops only on an
\* empty queue.
C11_EveryActionExecutedOnce ==
    /\ [](Len(requestQueue) > 0 => processingQueue /\ Len(drainTimers) > 0)
    /\ [](\A i, j \in 1..Len(executed) :
            executed[i].n = executed[j].n => i = j)
    /\ \A k \in DrainOrdinals :
          (Enqueued >= k) ~> (\E i \in 1..Len(executed) : executed[i].n = k)

\* C11 witness: a closure threw and the closure enqueued after it has been
\* executed.
C11_Witness ==
    \E i \in 1..Len(executed) :
        /\ executed[i].threw
        /\ i < Len(executed)
        /\ executed[i + 1].n = executed[i].n + 1

\* The REQ frame of the registered subscription s.
ReqFrame(s) == Frame("REQ", s.shortId, s.filters, "")
\* The REQ frame of the registered subscription s is in the scheduler for
\* connection c, or has been passed to send on c.
ReqQueuedOrSent(c, s) ==
    \/ \E i \in 1..Len(requestQueue) :
          /\ requestQueue[i].type = "req"
          /\ requestQueue[i].conn = c
          /\ requestQueue[i].sub = s.id
          /\ requestQueue[i].frame = ReqFrame(s)
    \/ [id |-> s.id, shortId |-> s.shortId, filters |-> s.filters]
           \in conns[c].subscriptions
\* The registry entries subscribe can create, and the ones in the registry.
SubEntries ==
    { [id |-> id, shortId |-> _shortenSubscriptionId(id), filters |-> f,
       callbacks |-> <<cb>>] : id \in SubIds, f \in FilterLists, cb \in Callbacks }
Registered(s) ==
    \E k \in 1..Len(globalSubscriptions) : globalSubscriptions[k] = s
\* An earlier connection of the relay of connection c on which n subscriptions
\* were applied.
HadSubscriptions(c, n) ==
    \E c0 \in 1..(c - 1) :
        /\ conns[c0].url = conns[c].url
        /\ Cardinality(conns[c0].subscriptions) = n

\* C12: at the open event of a new connection of a relay, the REQ frame of
\* every registered subscription, with its registered short id and filters,
\* is handed to the scheduler for the new connection (and sent at once when
\* the scheduler is idle); so a relay that had two active subscriptions gets
\* both REQ frames again on the new connection.
C12_ReappliedOnReconnect ==
    [][ \A c \in 1..Len(conns) :
          (conns[c].status = "connecting" /\ conns'[c].status = "open")
          => \A s \in SubEntries :
                 Registered(s)' => ReqQueuedOrSent(c, s)' ]_vars

\* C12 witness: the relay had two subscriptions applied on its first
\* connection, and both registered subscriptions have been sent again on its
\* second, open connection.
C12_Witness ==
    \E c \in 1..Len(conns) :
        /\ HadSubscriptions(c, 2)
        /\ conns[c].status = "open"
        /\ conns[c].sentN > 0
        /\ Len(globalSubscriptions) = 2
        /\ \A k \in 1..Len(globalSubscriptions) :
              [id |-> globalSubscriptions[k].id,
               shortId |-> globalSubscriptions[k].shortId,
               filters |-> globalSubscriptions[k].filters] \in conns[c].subscriptions

\* The endpoints of the pool: their connections.
PoolEndpoints == { relays[i].conn : i \in 1..Len(relays) }
OpenEndpoints == { c \in PoolEndpoints : conns[c].status = "open" }
\* REQ closures of the logical id in the scheduler for connection c, plus one
\* when the id is applied on c.
ReqCount(c, id) ==
    Cardinality({ i \in 1..Len(requestQueue) :
                    /\ requestQueue[i].type = "req"
                    /\ requestQueue[i].conn = c
                    /\ requestQueue[i].sub = id })
    + (IF \E a \in conns[c].subscriptions : a.id = id THEN 1 ELSE 0)
\* The REQ frame of s is in the buffer of connection c.
ReqBuffered(c, s) ==
    \E j \in 1..Len(conns[c].pendingMessages) :
        conns[c].pendingMessages[j].f = ReqFrame(s)

\* C13 as stated: a subscribe that registers s hands its REQ frame to the
\* scheduler for every open endpoint and buffers it on every endpoint that is
\* not open.
C13_SubscribeBuffersOnNotOpen ==
    [][ \A s \in SubEntries :
          (~Registered(s) /\ Registered(s)')
          => \A c \in PoolEndpoints :
                 IF conns[c].status = "open"
                 THEN ReqQueuedOrSent(c, s)'
                 ELSE ReqBuffered(c, s)' ]_vars

\* C13, amended: a subscribe that registers s hands one REQ frame of s to the
\* scheduler for every open endpoint and nothing else; it buffers nothing and
\* leaves the endpoints that are not open untouched.  An endpoint that opens
\* gets exactly one REQ per registered subscription, from the registry.
C13_SubscribeEnqueuesOnOpenOnly ==
    /\ [][ \A s \in SubEntries :
             (~Registered(s) /\ Registered(s)')
             => /\ Enqueued' - Enqueued = Cardinality(OpenEndpoints)
                /\ nBuffered' = nBuffered
                /\ \A c \in PoolEndpoints :
                      IF conns[c].status = "open"
                      THEN ReqQueuedOrSent(c, s)'
                      ELSE conns'[c] = conns[c] ]_vars
    /\ [][ \A c \in 1..Len(conns) :
             (conns[c].status = "connecting" /\ conns'[c].status = "open")
             => \A s \in SubEntries :
                    Registered(s)' => ReqCount(c, s.id)' = 1 ]_vars

\* C13 witness: the state a subscribe leaves when one endpoint of the pool is
\* open and the other connecting: the REQ has gone out on the open one, and
\* nothing was ever buffered.
C13_Witness ==
    /\ Len(relays) = 2
    /\ Len(globalSubscriptions) = 1
    /\ nBuffered = 0
    /\ Enqueued = 1
    /\ \E c, d \in PoolEndpoints :
          /\ conns[c].status = "open"
          /\ conns[c].sentN = 1
          /\ \E a \in conns[c].subscriptions : a.id = globalSubscriptions[1].id
          /\ conns[d].status = "connecting"
          /\ conns[d].pendingMessages = <<>>

\* The logical id is in the registry.
RegisteredId(id) ==
    \E k \in 1..Len(globalSubscriptions) : globalSubscriptions[k].id = id
\* The endpoints of the pool on which the logical id is applied.
AppliedOn(id) ==
    { c \in PoolEndpoints : \E a \in conns[c].subscriptions : a.id = id }
\* The CLOSE closure of subscription s for connection c is in the scheduler.
CloseQueued(c, s) ==
    \E i \in 1..Len(requestQueue) :
        /\ requestQueue[i].type = "close"
        /\ requestQueue[i].conn = c
        /\ requestQueue[i].frame = Frame("CLOSE", s.shortId, <<>>, "")
\* The applied set of c with the logical id taken out.
WithoutId(c, id) == { a \in conns[c].subscriptions : a.id # id }

EntryOf(id) == globalSubscriptions[SubIndex(World, id)]

\* C15: while a logical id stays registered, its filter list and the
\* callbacks already registered for it stay as they are: a further subscribe
\* with the same id leaves the registered filters in place and only adds its
\* callback.
C15_FiltersImmutable ==
    [][ \A id \in SubIds :
          (RegisteredId(id) /\ RegisteredId(id)')
          => /\ EntryOf(id)'.filters = EntryOf(id).filters
             /\ \A k \in 1..Len(EntryOf(id).callbacks) :
                   /\ k <= Len(EntryOf(id)'.callbacks)
                   /\ EntryOf(id)'.callbacks[k] = EntryOf(id).callbacks[k] ]_vars

\* sid is the short id of the logical id: the id itself when it has at most 8
\* characters, otherwise its first 8 characters.
IsShortIdOf(sid, id) ==
    /\ Len(sid) = (IF Len(id) <= 8 THEN Len(id) ELSE 8)
    /\ \A i \in 1..Len(sid) : sid[i] = id[i]
\* Logical ids of every length from 0 to 16.
IdPrefixes == { SubSeq(SubGroups, 1, n) : n \in 0..Len(SubGroups) }

MatchesOf(subs, frame) == { k \in 1..Len(subs) : subs[k].shortId = frame.sid }

\* The callbacks of the registered subscription e ran for the inbound frame.
CallbacksRan(e, calls) ==
    \A j \in 1..Len(e.callbacks) :
        \E i \in 1..Len(calls) : calls[i] = [cb |-> e.callbacks[j], sub |-> e.id]

\* C17: an inbound EVENT frame is dispatched to the callbacks of every
\* registered subscription whose short id is the frame's and to every global
\* observer; a frame whose short id is registered by no subscription invokes
\* no callback and no observer.
C17_DispatchToMatching ==
    [][nFrames' = nFrames + 1 =>
         LET frame == lastFrame'[1]
             matches == MatchesOf(globalSubscriptions, frame)
         IN  /\ \A k \in matches :
                    /\ CallbacksRan(globalSubscriptions[k], invoked')
                    /\ \A o \in 1..Len(eventCallbacks) :
                           \E i \in 1..Len(invoked') :
                               invoked'[i].cb = eventCallbacks[o]
             /\ matches = {} => invoked' = <<>>]_vars

\* ------------------------------------------------------------------ C18
\* The messages the filter is asked about: every author, every kind the
\* client handles, with and without the tags the filter reads.
FilterEvents ==
    { [BaseEvent EXCEPT !.pubkey = pk, !.kind = kind, !.hypertuna = t,
                        !.i = (t # NoTag), !.p = p] :
        pk \in Pubkeys,
        kind \in { KIND_METADATA, KIND_TEXT_NOTE, KIND_GROUP_METADATA,
                   KIND_GROUP_ADMIN_LIST, KIND_GROUP_MEMBER_LIST,
                   KIND_HYPERTUNA_RELAY },
        t \in { NoTag, HypertunaId },
        p \in { {}, {"me"}, {"rl"} } }

\* The predicate as the specification states it.
PassesAsSpecified(cl, ev) ==
    \/ ev.pubkey = cl.user
    \/ /\ ev.kind \in { KIND_GROUP_METADATA, KIND_HYPERTUNA_RELAY }
       /\ ev.hypertuna # NoTag
    \/ ev.pubkey \in cl.follows \cup cl.relevantPubkeys
    \/ /\ ev.kind \in { KIND_GROUP_MEMBER_LIST, KIND_GROUP_ADMIN_LIST }
       /\ cl.user \in ev.p

\* The predicate the filter computes.
PassesAsCoded(cl, ev) ==
    \/ ev.pubkey = cl.user
    \/ /\ ev.kind = KIND_GROUP_METADATA
       /\ ev.hypertuna = NoTag \/ ev.pubkey \in cl.follows
    \/ ev.kind = KIND_HYPERTUNA_RELAY
    \/ /\ ev.kind # KIND_GROUP_METADATA
       /\ ev.pubkey \in cl.follows \cup cl.relevantPubkeys
    \/ /\ ev.kind \in { KIND_GROUP_MEMBER_LIST, KIND_GROUP_ADMIN_LIST }
       /\ cl.user \in ev.p

\* C18 as stated: with a user, the filter passes a message exactly when the
\* user wrote it, or it is a group-metadata or relay-descriptor message with
\* the system's tag, or its author is followed or relevant, or it is a roster
\* message naming the user.
C18_FilterAsSpecified ==
    client.user # "null" =>
        \A ev \in FilterEvents :
            _shouldProcessEvent(client, ev) <=> PassesAsSpecified(client, ev)

\* C18 amended: with a user, the filter passes a message exactly when the user
\* wrote it; or it is a group-metadata message that has no hypertuna tag or
\* whose author is followed; or it is a relay-descriptor message; or it is not
\* a group-metadata message and its author is followed or relevant; or it is
\* a roster message naming the user.
C18_FilterAsCoded ==
    client.user # "null" =>
        \A ev \in FilterEvents :
            _shouldProcessEvent(client, ev) <=> PassesAsCoded(client, ev)

C18_Witness ==
    /\ client.user = Me
    /\ "fo" \in client.follows
    /\ "rl" \in client.relevantPubkeys \ client.follows
    /\ \E i \in 1..Len(invoked) : invoked[i].cb = "relevanceObserver"

\* ------------------------------------------------------------------ C19
\* The projection store of the client.
ProjectionStore(cl) ==
    [groups |-> cl.groups, groupMembers |-> cl.groupMembers,
     groupAdmins |-> cl.groupAdmins, groupMessages |-> cl.groupMessages,
     cachedProfiles |-> cl.cachedProfiles,
     relevantPubkeys |-> cl.relevantPubkeys]

\* C19: an inbound message that the relevance filter does not pass leaves the
\* projection store (groups, rosters, messages, profile cache, relevant keys)
\* as it was and reaches no listener of the application, under whichever
\* subscription it arrives.
C19_FilteredBeforeStore ==
    [][/\ nFrames' = nFrames + 1
       /\ client.user # "null"
       /\ ~_shouldProcessEvent(client, lastFrame'[1].ev)
       => /\ ProjectionStore(client') = ProjectionStore(client)
          /\ emitted' = <<>>]_vars

\* ------------------------------------------------------------------ C20
GroupIds == { GroupG1 }

\* The inbound frame of this step is a group-metadata message for group g that
\* _processGroupMetadataEvent is called with.
MetadataProcessed(g) ==
    /\ nFrames' = nFrames + 1
    /\ lastFrame'[1].ev.kind = KIND_GROUP_METADATA
    /\ lastFrame'[1].ev.d = g
    /\ \E i \in 1..Len(invoked') :
          \/ invoked'[i].cb = "groupsCb"
          \/ /\ invoked'[i].cb = "relevanceObserver"
             /\ _shouldProcessEvent(client, lastFrame'[1].ev)

\* C20 as stated: the stored entry of a group changes only to an entry with a
\* newer timestamp.
C20_ReplacedOnlyIfNewer ==
    [][\A g \in GroupIds :
         /\ MapHas(client.groups, g)
         /\ MapGet(client'.groups, g) # MapGet(client.groups, g)
         => MapGet(client'.groups, g).createdAt > MapGet(client.groups, g).createdAt]_vars

\* C20 amended: a group-metadata message replaces the stored entry of its
\* group unless the stored entry is strictly newer, in which case the entry
\* stays as it is; a message with the stored timestamp replaces the entry.
\* Nothing else changes an entry, and the stored timestamp never decreases.
C20_ReplacedUnlessOlder ==
    [][\A g \in GroupIds :
         /\ MapHas(client.groups, g) =>
               /\ MapHas(client'.groups, g)
               /\ MapGet(client'.groups, g).createdAt
                      >= MapGet(client.groups, g).createdAt
         /\ MetadataProcessed(g) =>
               IF /\ MapHas(client.groups, g)
                  /\ MapGet(client.groups, g).createdAt > lastFrame'[1].ev.created_at
               THEN MapGet(client'.groups, g) = MapGet(client.groups, g)
               ELSE MapGet(client'.groups, g) = parseGroupMetadata(lastFrame'[1].ev)
         /\ ~MetadataProcessed(g) =>
               { x \in client'.groups : x.id = g } = { x \in client.groups : x.id = g }]_vars

\* The older message arrived after the newer one and the entry is the newer.
C20_Witness ==
    /\ nFrames > 1
    /\ lastFrame[1].ev = Metadata1
    /\ \E i \in 1..Len(invoked) : invoked[i].cb = "relevanceObserver"
    /\ MapHas(client.groups, GroupG1)
    /\ MapGet(client.groups, GroupG1).createdAt = 2

\* ------------------------------------------------------------------ C21
RosterGroups == { GroupG1, GroupA, GroupB }

\* The inbound frame of this step carries a message of the given kind for
\* group g.
Delivered(kind, g) ==
    /\ nFrames' = nFrames + 1
    /\ lastFrame'[1].ev.kind = kind
    /\ lastFrame'[1].ev.d = g

\* C21: a member-list or admin-list message that is older than the message
\* the stored roster of its group came from leaves the stored roster as it
\* is.
C21_OlderRosterDropped ==
    [][\A g \in RosterGroups :
         /\ /\ Delivered(KIND_GROUP_MEMBER_LIST, g)
            /\ MapHas(client.groupMembers, g)
            /\ lastFrame'[1].ev.created_at < MapGet(client.groupMembers, g).at
            => MapGet(client'.groupMembers, g) = MapGet(client.groupMembers, g)
         /\ /\ Delivered(KIND_GROUP_ADMIN_LIST, g)
            /\ MapHas(client.groupAdmins, g)
            /\ lastFrame'[1].ev.created_at < MapGet(client.groupAdmins, g).at
            => MapGet(client'.groupAdmins, g) = MapGet(client.groupAdmins, g)]_vars

\* ------------------------------------------------------------------ C22
\* C22: a group-creation message changes no group entry, and a metadata
\* message that is processed while the store holds no entry or an entry that
\* is not newer makes the entry of its group the fields of the metadata
\* message; so after the creation message and its later metadata message, in
\* either order, the entry carries the metadata message's fields only.
C22_MetadataNotCreation ==
    [][/\ /\ nFrames' = nFrames + 1
          /\ lastFrame'[1].ev.kind = KIND_GROUP_CREATE
          => client'.groups = client.groups
       /\ \A g \in GroupIds :
            /\ MetadataProcessed(g)
            /\ lastFrame'[1].ev = MetadataOfCreation
            => MapGet(client'.groups, g) = parseGroupMetadata(MetadataOfCreation)]_vars

\* The metadata message was stored and the creation message came after it.
C22_Witness ==
    /\ nFrames > 1
    /\ lastFrame[1].ev = Creation1
    /\ \E i \in 1..Len(invoked) : invoked[i].cb = "relevanceObserver"
    /\ MapHas(client.groups, GroupG1)
    /\ MapGet(client.groups, GroupG1).event = MetadataOfCreation.id
    /\ MapGet(client.groups, GroupG1).name = <<"renamed">>

\* ------------------------------------------------------------------ C23
\* The message list of group g.
MessagesOf(cl, g) ==
    IF MapHas(cl.groupMessages, g) THEN MapGet(cl.groupMessages, g).messages
    ELSE <<>>

NoTwoWithOneId(messages) ==
    \A i, j \in 1..Len(messages) : messages[i].id = messages[j].id => i = j

SortedByTimestamp(messages) ==
    \A i, j \in 1..Len(messages) :
        i < j => messages[i].created_at <= messages[j].created_at

\* C23: the message list of every group holds no two entries with one id and
\* is sorted by non-decreasing timestamp; an inbound note whose id is in the
\* list of its group changes no list and emits no 'group:message'.
C23_TimelineDedupSorted ==
    /\ [](\A g \in GroupIds :
            /\ NoTwoWithOneId(MessagesOf(client, g))
            /\ SortedByTimestamp(MessagesOf(client, g)))
    /\ [][( /\ nFrames' = nFrames + 1
             /\ lastFrame'[1].ev.kind = KIND_TEXT_NOTE
             /\ \E k \in 1..Len(MessagesOf(client, lastFrame'[1].ev.h)) :
                   MessagesOf(client, lastFrame'[1].ev.h)[k].id = lastFrame'[1].ev.id )
           => ( /\ client'.groupMessages = client.groupMessages
                /\ \A i \in 1..Len(emitted') : emitted'[i] # "group:message" )]_vars

\* The newer note came first, the older one was put in front of it, and the
\* last frame brought the newer note again, to the subscription callback and
\* to the observer.
C23_Witness ==
    /\ lastFrame # <<>>
    /\ lastFrame[1].ev = Note2
    /\ \E i \in 1..Len(invoked) : invoked[i].cb = "contentCb"
    /\ \E i \in 1..Len(invoked) : invoked[i].cb = "relevanceObserver"
    /\ emitted = <<"event", "event:kind">>
    /\ MessagesOf(client, GroupG1) =
          << [id |-> "t1", created_at |-> 1], [id |-> "t2", created_at |-> 2],
             [id |-> "t3", created_at |-> 2] >>

\* ------------------------------------------------------------------ C24
\* The inbound frame of this step carries a roster of the given kind for
\* group g, and a subscription callback of the client that processes rosters
\* was invoked with it.
RosterProcessed(kind, g) ==
    /\ Delivered(kind, g)
    /\ \E i \in 1..Len(invoked') : invoked'[i].cb \in {"userGroupsCb", "membersCb"}

\* A subscription to the content of group g is registered.
ContentSubscribed(subs, g) ==
    \E k \in 1..Len(subs) :
        \E f \in 1..Len(subs[k].filters) :
            subs[k].filters[f] = Filter("fGroupContent", g)

\* C24: an inbound member or admin list with a d tag becomes the stored
\* roster of its group as a whole, every key it names is in the relevant-keys
\* set afterwards, and after a member list that names the user a content
\* subscription for that group is registered, for every group id.
C24_RosterReplacedAndSubscribed ==
    [][\A g \in RosterGroups :
         /\ RosterProcessed(KIND_GROUP_MEMBER_LIST, g) =>
               /\ MapHas(client'.groupMembers, g)
               /\ MapGet(client'.groupMembers, g).members = lastFrame'[1].ev.p
               /\ lastFrame'[1].ev.p \subseteq client'.relevantPubkeys
               /\ client.user \in lastFrame'[1].ev.p =>
                      ContentSubscribed(globalSubscriptions', g)
         /\ RosterProcessed(KIND_GROUP_ADMIN_LIST, g) =>
               /\ MapHas(client'.groupAdmins, g)
               /\ MapGet(client'.groupAdmins, g).admins = lastFrame'[1].ev.p
               /\ lastFrame'[1].ev.p \subseteq client'.relevantPubkeys]_vars

\* ------------------------------------------------------------------ C25
\* C25: the promise of addRelay resolves at the open event of its connection,
\* rejects at an error event while connecting, keeps its state once settled,
\* and is not pending when the connection is closed.
C25_ConnectFutureSettlesOnce ==
    /\ [](\A c \in 1..Len(conns) :
            conns[c].readyState = "CLOSED" => conns[c].promise # "pending")
    /\ [][\A c \in 1..Len(conns) :
            /\ ( /\ conns[c].readyState = "CONNECTING"
                 /\ conns'[c].readyState = "OPEN" )
               => conns'[c].promise = "resolved"
            /\ ( /\ conns[c].readyState = "CONNECTING"
                 /\ conns'[c].readyState = "CLOSING" )
               => conns'[c].promise = "rejected"
            /\ conns[c].promise # "pending"
               => conns'[c].promise = conns[c].promise]_vars

\* ------------------------------------------------------------------ C26
\* C26: a step in which an open endpoint's socket leaves OPEN for CLOSING (a
\* transport error after open) leaves the endpoint's status, buffered frames,
\* applied subscriptions and connect promise as they were; an endpoint
\* becomes closed only at the close event of its socket.
C26_ErrorAfterOpenNotFatal ==
    [][\A c \in 1..Len(conns) :
         /\ ( /\ conns[c].status = "open"
              /\ conns[c].readyState = "OPEN"
              /\ conns'[c].readyState = "CLOSING" )
            => /\ conns'[c].status = "open"
               /\ conns'[c].pendingMessages = conns[c].pendingMessages
               /\ conns'[c].subscriptions = conns[c].subscriptions
               /\ conns'[c].promise = conns[c].promise
         /\ ( /\ conns[c].status # "closed"
              /\ conns'[c].status = "closed" )
            => /\ conns[c].readyState # "CLOSED"
               /\ conns'[c].readyState = "CLOSED"]_vars

\* An endpoint with an applied subscription after a transport error: still
\* open to the program, its promise resolved, the close event still to come.
C26_Witness ==
    \E c \in 1..Len(conns) :
        /\ conns[c].status = "open"
        /\ conns[c].readyState = "CLOSING"
        /\ conns[c].promise = "resolved"
        /\ conns[c].subscriptions # {}
        /\ RelaysHas(World, conns[c].url)
        /\ RelaysGet(World, conns[c].url) = c

\* ------------------------------------------------------------------ C27
\* What a message event can change of the endpoint and the client.
ReceiverState ==
    <<relays, conns, globalSubscriptions, requestQueue, processingQueue,
      lastRequestTime, drainTimers, reconnectTimers, attempts, pubs,
      eventCallbacks, connectCallbacks, disconnectCallbacks, client>>

\* C27: a malformed inbound frame (unparseable text, a value that is not an
\* array, an EVENT frame with fewer than three elements, an unknown tag)
\* changes no state of the endpoint, invokes no callback and leaves the
\* connection as it is; a well-formed EVENT frame that follows it on the same
\* connection is dispatched to the callbacks registered under its short id.
C27_MalformedFrameIgnored ==
    /\ [][(nFrames' = nFrames + 1 /\ Malformed(lastFrame'[1])) =>
            ( /\ ReceiverState' = ReceiverState
              /\ invoked' = <<>>
              /\ emitted' = <<>> )]_vars
    /\ [][(/\ nFrames' = nFrames + 1
           /\ ~Malformed(lastFrame'[1])
           /\ lastFrame'[1].after) =>
            ( \A k \in MatchesOf(globalSubscriptions, lastFrame'[1]) :
                  /\ CallbacksRan(globalSubscriptions[k], invoked')
                  /\ \A o \in 1..Len(eventCallbacks) :
                         \E i \in 1..Len(invoked') :
                             invoked'[i].cb = eventCallbacks[o] )]_vars

\* A well-formed frame was dispatched to a subscription callback and an
\* observer on a connection whose frame before it was malformed, while a
\* publish awaits its OK on that connection.
C27_Witness ==
    /\ lastFrame # <<>>
    /\ lastFrame[1].after
    /\ ~Malformed(lastFrame[1])
    /\ Len(invoked) >= 2
    /\ conns[lastFrame[1].conn].readyState = "OPEN"
    /\ \E a \in 1..Len(attempts) :
          attempts[a].conn = lastFrame[1].conn /\ attempts[a].listening

\* ------------------------------------------------------------------ C28
\* C28: every frame that goes out on a connection (REQ, CLOSE, EVENT, a
\* buffered frame flushed at open) is written by a closure that _processQueue
\* has taken from the request queue and run in that step; no step of
\* subscribe, unsubscribe, publish or the open handler writes otherwise.
C28_WritesOnlyByDrainLoop ==
    [][\A c \in 1..Len(conns) :
          (conns'[c].sentN # conns[c].sentN \/ conns'[c].sentB # conns[c].sentB) =>
              \E i \in (Len(executed) + 1)..Len(executed') :
                  /\ executed'[i].n = conns'[c].sentN
                  /\ ~executed'[i].threw]_vars

\* A connection with an applied subscription has sent a frame that was
\* buffered before it opened and the EVENT frame of a publish that awaits its
\* OK, after three closures at least were run.
C28_Witness ==
    /\ Len(executed) >= 3
    /\ \E c \in 1..Len(conns) :
          /\ conns[c].readyState = "OPEN"
          /\ conns[c].sentB > 0
          /\ conns[c].sentN > conns[c].sentB
          /\ conns[c].subscriptions # {}
          /\ \E a \in 1..Len(attempts) :
                attempts[a].conn = c /\ attempts[a].listening

\* ------------------------------------------------------------------ C29
\* The publish of the profile event has failed and the flow has reported it.
ProfilePublishFailed ==
    /\ profileFlow.pc = "rejected"
    /\ profileFlow.error = "Failed to publish to any relays"

\* C29: the profile update fails to its caller on a failed publish only after
\* its retries are exhausted, so that a failure of its first publish is
\* followed by a retry; the waits before the retries of a loop double, and
\* the number of publishes is bounded.
C29_ProfileUpdateRetries ==
    /\ ProfilePublishFailed =>
          /\ profileFlow.attempts = maxAttempts
          /\ profileFlow.published > 1
    /\ profileFlow.published <= 1 + maxAttempts * maxAttempts
    /\ \A i \in 1..(Len(profileFlow.waits) - 1) :
          \/ profileFlow.waits[i + 1] = 2 * profileFlow.waits[i]
          \/ profileFlow.waits[i + 1] \in {1000, 2000, 4000}

\* ------------------------------------------------------------------ C30
\* C30: once an attempt of a publish has reached success or queued the
\* promise of publish is resolved, whatever the attempts on the other relays:
\* no publish is pending at the end of a task with such an attempt.
C30_ResolvesOnFirstSuccess ==
    \A p \in 1..Len(pubs) :
        (\E a \in 1..Len(attempts) :
            /\ attempts[a].pub = p
            /\ IsSuccessful(attempts[a]) \/ IsQueued(attempts[a])) =>
        pubs[p].state = "resolved"

C32_ListenerDetachedByDeadline ==
    /\ [](\A a \in 1..Len(attempts) : attempts[a].listening => attempts[a].timer)
    /\ [][\A a \in 1..Len(attempts) :
            (attempts[a].timer /\ ~attempts'[a].timer) => ~attempts'[a].listening]_vars

\* Of two attempts made on open endpoints one got its OK and one timed out,
\* and neither listener is attached any more.
C32_Witness ==
    /\ \E a \in 1..Len(attempts) :
          attempts[a].outcome = "success" /\ ~attempts[a].listening
    /\ \E a \in 1..Len(attempts) :
          attempts[a].outcome = "timeout" /\ ~attempts[a].listening

\* ------------------------------------------------------------------ C33
\* C33: the fetch of the follow set ends, at the first contact list of the
\* user or when its timer fires; once it has ended the contacts subscription
\* is not registered and the timer is not armed; the follow set changes only
\* while the fetch is pending, by the keys of a contact list of the user.
C33_FollowFetchTerminates ==
    /\ (client.phase = "follows") ~> (client.phase = "ready")
    /\ [](client.phase = "ready" =>
            ( /\ SubIndex(World, ContactsSubId(World)) = 0
              /\ ~client.contactsTimer ))
    /\ [][client'.follows # client.follows =>
            ( /\ client.phase = "follows"
              /\ client'.phase = "ready"
              /\ nFrames' = nFrames + 1
              /\ lastFrame'[1].ev.kind = KIND_CONTACTS
              /\ lastFrame'[1].ev.pubkey = client.user
              /\ client'.follows = client.follows \cup lastFrame'[1].ev.p )]_vars

\* The fetch ended at the first contact list of the user; a second one that
\* arrived afterwards has left the follow set as it was.
C33_Witness ==
    /\ client.phase = "ready"
    /\ client.follows = {"fo"}
    /\ lastFrame # <<>>
    /\ lastFrame[1].ev = Contacts2

\* ------------------------------------------------------------------ C34
\* The listener cb of the client was called for the frame.
ListenerRan(cb, events) == \E i \in 1..Len(events) : events[i] = cb

\* C34: for an inbound EVENT frame of a registered subscription every
\* callback of the subscription and every observer of the manager is called,
\* and when the client processes the message every listener of its per-kind
\* event is called, whichever of them throw.
C34_ThrowingCallbackIsolated ==
    [][(nFrames' = nFrames + 1 /\ OriginalSubIndex(World, lastFrame'[1].sid) # 0) =>
         LET frame == lastFrame'[1]
             e == globalSubscriptions[OriginalSubIndex(World, frame.sid)]
         IN  /\ CallbacksRan(e, invoked')
             /\ \A o \in 1..Len(eventCallbacks) :
                    \E i \in 1..Len(invoked') : invoked'[i].cb = eventCallbacks[o]
             /\ (/\ \E o \in 1..Len(eventCallbacks) :
                       eventCallbacks[o] = "relevanceObserver"
                  /\ frame.ev.pubkey = client.user) =>
                   \A l \in 1..Len(client.eventListeners) :
                       client.eventListeners[l].name = "event:kind" =>
                           ListenerRan(client.eventListeners[l].cb, emitted')]_vars

\* The callback of the subscription threw, an observer of the manager threw
\* before another one was called, and a listener of the client threw before
\* another one was called.
C34_Witness ==
    /\ Len(invoked) >= 4
    /\ invoked[1].cb = Throwing
    /\ \E i, j \in 2..Len(invoked) :
          i < j /\ invoked[i].cb = Throwing /\ invoked[j].cb = "obs1"
    /\ \E i, j \in 1..Len(emitted) :
          i < j /\ emitted[i] = Throwing /\ emitted[j] = "lst1"

\* ------------------------------------------------------------------ C35
\* C35: after subscribe(id) and unsubscribe(id), once the scheduler queue has
\* drained, no open endpoint of the pool has id in its applied subscriptions.
C35_UnsubscribeUndoesSubscribe ==
    (requestQueue = <<>> /\ ~processingQueue) =>
        \A id \in SubIds :
            SubIndex(World, id) = 0 =>
                \A i \in 1..Len(relays) :
                    conns[relays[i].conn].status = "open" =>
                        ~\E s \in conns[relays[i].conn].subscriptions : s.id = id

\* ------------------------------------------------------------------ C36
\* C36: when two registered subscriptions have one short id, an inbound EVENT
\* frame under that short id invokes the callbacks of both.
C36_SharedShortIdReachesBoth ==
    [][nFrames' = nFrames + 1 =>
         \A j, k \in 1..Len(globalSubscriptions) :
             (/\ j # k
              /\ globalSubscriptions[j].shortId = lastFrame'[1].sid
              /\ globalSubscriptions[k].shortId = lastFrame'[1].sid) =>
                 /\ CallbacksRan(globalSubscriptions[j], invoked')
                 /\ CallbacksRan(globalSubscriptions[k], invoked')]_vars

\* ------------------------------------------------------------------ C37
\* C37: no closure of the scheduler calls send on a connection that is not
\* open, be it closed or closing after removeRelay.
C37_NoWriteUnlessOpen ==
    \A i \in 1..Len(executed) :
        /\ executed[i].sendOn \in {"none", "OPEN"}
        /\ ~executed[i].threw

\* ------------------------------------------------------------------ C38
\* The projection store of the client.
Stores(cl) ==
    << cl.groups, cl.groupMembers, cl.groupAdmins, cl.groupMessages,
       cl.relevantPubkeys >>

\* The frames a relay may deliver again.
StoreInbound == ClientInbound \cup RosterInbound \cup GroupInbound \cup TimelineInbound

\* C38: delivering an inbound message twice, through the callback of its
\* subscription and the observer of the client each time, leaves groups,
\* rosters, message lists and relevant keys as delivering it once does.
C38_ApplyTwiceAsOnce ==
    \A c \in 1..Len(conns), message \in StoreInbound :
        conns[c].readyState = "OPEN" =>
            LET once == ws_onmessage(World, c, message)
                twice == ws_onmessage(once, c, message)
            IN  Stores(twice.client) = Stores(once.client)

\* A note of the timeline was handed to the callback of its subscription and
\* to the observer of the client, and is in the list of its group once.
C38_Witness ==
    /\ lastFrame # <<>>
    /\ lastFrame[1].ev.kind = KIND_TEXT_NOTE
    /\ \E i, j \in 1..Len(invoked) :
          invoked[i].cb = "contentCb" /\ invoked[j].cb = "relevanceObserver"
    /\ \E g \in client.groupMessages :
          \E m \in 1..Len(g.messages) : g.messages[m].id = lastFrame[1].ev.id
    /\ \E c \in 1..Len(conns) : conns[c].readyState = "OPEN"

\* ------------------------------------------------------------------ C39
\* C39: for every URL string u, after addRelay(u) and removeRelay(u) the pool
\* has no endpoint for u, neither under u nor under its normalized form.
C39_RemoveUndoesAdd ==
    \A u \in RawURLs :
        LET added == addRelay(World, u)
            removed == removeRelay(added, u)
        IN  /\ ~RelaysHas(removed, u)
            /\ ~RelaysHas(removed, NormalizeUrl(u))

\* ------------------------------------------------------------------ C40
\* C40: between the steps of the program the processing flag is true exactly
\* while a drain timer is armed, at most one drain timer is armed, the flag is
\* false when the queue is empty, and an enqueue while the flag is true arms
\* no timer and runs no closure.
C40_SingleDrain ==
    /\ [](/\ processingQueue <=> (Len(drainTimers) > 0)
          /\ Len(drainTimers) <= 1
          /\ (requestQueue = <<>>) => ~processingQueue)
    /\ [][(processingQueue /\ Len(requestQueue') > Len(requestQueue)) =>
             /\ drainTimers' = drainTimers
             /\ executed' = executed
             /\ processingQueue']_vars

\* A closure was enqueued behind another one while the drain timer was armed,
\* after a closure had thrown.
C40_Witness ==
    /\ processingQueue
    /\ Len(drainTimers) = 1
    /\ Len(requestQueue) >= 2
    /\ \E i \in 1..Len(executed) : executed[i].threw

====
